---------------------------- MODULE Spec2Model ----------------------------
(***************************************************************************)
(* A model of the orchestration core of the animation showcase:            *)
(*   - EffectManager       (src/SceneManager.ts, lines 539-1081)           *)
(*   - AnimationSequencer  (src/AnimationSequencer.ts)                     *)
(*   - PerformanceOptimizer (src/unnamed/part_007, lines 371-502)          *)
(*                                                                         *)
(* JavaScript numbers are modelled as exact rationals <<n, d>> in lowest   *)
(* terms with d > 0; <<0, 0>> is NaN and <<1, 0>>, <<-1, 0>> are the two   *)
(* infinities, so a division by zero is a value the properties can see.        *)
(* Rounding of IEEE doubles is not modelled.                               *)
(***************************************************************************)
EXTENDS Integers, Sequences, FiniteSets, TLC

VARIABLES
    \* PerformanceOptimizer
    frameRates,     \* this.frameRates: the buffered FPS samples, oldest first
    recorded,       \* observer: every sample pushed since the last reset()
    settings,       \* observer: what the four derived-setting getters last returned
    \* EffectManager
    effects,        \* this.effects: the catalog, id -> Effect
    activeOrder,    \* key order of the activeEffects Map (insertion order)
    activeEffects,  \* this.activeEffects: id -> EffectState, for the ids in activeOrder
    globalIntensity,\* this.globalIntensity
    listeners,      \* this.listeners, in insertion order
    requested,      \* observer: id -> the intensity last asked for that active effect
    requestedGlobal,\* observer: the global intensity last asked for
    lastEffectCall, \* observer: the last EffectManager call, its result and its log
    \* AnimationSequencer
    sequences,      \* this.sequences: id -> the sequence object registered under it
    currentSequence,\* this.currentSequence: a sequence object (NoSequence for null)
    startTime,      \* this.startTime (ms)
    isPlaying,      \* this.isPlaying
    speed,          \* this.speed
    progress,       \* this.progress
    now,            \* Date.now() (ms)
    lastCall,       \* observer: the last sequencer call ("wait" once time has passed)
    emitted,        \* observer: callbacks and events the last call fires, in order,
                    \* when none of them throws
    completeCount,  \* observer: 'complete' events since the last play()
    frameData,      \* observer: the data of the 'update' event the last call emitted
    obs,            \* observer: pause/resume and seek/update scenarios in progress
    run,            \* observer: the playback that only update() has touched since play()
    subscribers,    \* the EventEmitter's listeners, in registration order
    heard,          \* observer: what the last call delivered, and whether it threw
    \* interpolateTrack as a function under test
    itTrack,        \* the track handed to interpolateTrack
    itTime,         \* the query time
    itResult        \* whether interpolateTrack was called, and what it returned

perfVars == <<frameRates, recorded, settings>>
effectVars == <<effects, activeOrder, activeEffects, globalIntensity, listeners,
                requested, requestedGlobal, lastEffectCall>>
seqVars == <<sequences, currentSequence, startTime, isPlaying, speed, progress,
             now, lastCall, emitted, frameData, completeCount, obs, run>>
emitterVars == <<subscribers, heard>>
interpVars == <<itTrack, itTime, itResult>>
vars == <<perfVars, effectVars, seqVars, emitterVars, interpVars>>

-----------------------------------------------------------------------------
(* JavaScript number arithmetic, exact.                                    *)

RECURSIVE Gcd(_, _)
Gcd(a, b) == IF b = 0 THEN a ELSE Gcd(b, a % b)

Abs(x) == IF x < 0 THEN -x ELSE x

Sign(x) == IF x < 0 THEN -1 ELSE IF x = 0 THEN 0 ELSE 1

\* The number n/d; d = 0 gives NaN (n = 0) or an infinity.
Rat(n, d) ==
    IF d = 0 THEN <<Sign(n), 0>>
    ELSE LET g == Gcd(Abs(n), Abs(d))
         IN  IF d < 0 THEN <<(-n) \div g, (-d) \div g>> ELSE <<n \div g, d \div g>>

Num(n) == <<n, 1>>
NaN == <<0, 0>>
IsNaN(a) == a = NaN
IsFinite(a) == a[2] # 0

RNeg(a) == <<-a[1], a[2]>>

RAdd(a, b) ==
    IF IsNaN(a) \/ IsNaN(b) THEN NaN
    ELSE IF ~IsFinite(a) /\ ~IsFinite(b) THEN (IF a = b THEN a ELSE NaN)
    ELSE IF ~IsFinite(a) THEN a
    ELSE IF ~IsFinite(b) THEN b
    ELSE Rat(a[1] * b[2] + b[1] * a[2], a[2] * b[2])

RSub(a, b) == RAdd(a, RNeg(b))

RMul(a, b) ==
    IF IsNaN(a) \/ IsNaN(b) THEN NaN
    ELSE IF ~IsFinite(a) \/ ~IsFinite(b) THEN <<Sign(a[1]) * Sign(b[1]), 0>>
    ELSE Rat(a[1] * b[1], a[2] * b[2])

RDiv(a, b) ==
    IF IsNaN(a) \/ IsNaN(b) THEN NaN
    ELSE IF ~IsFinite(b) THEN (IF IsFinite(a) THEN Num(0) ELSE NaN)
    ELSE IF ~IsFinite(a) THEN <<a[1] * (IF b[1] < 0 THEN -1 ELSE 1), 0>>
    ELSE Rat(a[1] * b[2], a[2] * b[1])

\* a < b, a <= b as JavaScript compares: false as soon as one side is NaN.
RLt(a, b) ==
    /\ ~IsNaN(a)
    /\ ~IsNaN(b)
    /\ IF IsFinite(a) /\ IsFinite(b) THEN a[1] * b[2] < b[1] * a[2]
       ELSE IF ~IsFinite(a) /\ ~IsFinite(b) THEN a[1] < b[1]
       ELSE IF ~IsFinite(a) THEN a[1] < 0
       ELSE b[1] > 0

RLe(a, b) == ~IsNaN(a) /\ ~IsNaN(b) /\ (a = b \/ RLt(a, b))
RGe(a, b) == RLe(b, a)
RGt(a, b) == RLt(b, a)

\* Math.min, Math.max: NaN if an argument is NaN.
MathMin(a, b) == IF IsNaN(a) \/ IsNaN(b) THEN NaN ELSE IF RLt(b, a) THEN b ELSE a
MathMax(a, b) == IF IsNaN(a) \/ IsNaN(b) THEN NaN ELSE IF RLt(a, b) THEN b ELSE a

\* Math.floor
MathFloor(a) == IF a[2] = 0 THEN a ELSE Num(a[1] \div a[2])

-----------------------------------------------------------------------------
(* PerformanceOptimizer                                                    *)

maxSamples == 60
targetFPS == 60
minFPS == 30

\* Bounds of the exploration: frames recorded between two reset() calls, and
\* the number of maximal runs of equal frame times among them.
MaxFrames == 62
MaxRuns == 2

\* The frame times (seconds) the frame loop reports: 15 and 60 FPS.
DeltaTimes == {Rat(1, 15), Rat(1, 60)}

\* No derived setting has been read since the buffer last changed.
NoSettings ==
    [asked |-> FALSE, lod |-> 0, shadow |-> "high", scale |-> Num(1), skip |-> FALSE]

Runs(s) ==
    IF Len(s) <= 1 THEN Len(s)
    ELSE 1 + Cardinality({i \in 1..(Len(s) - 1) : s[i] # s[i + 1]})

\* A buffer that drops the sample just pushed when it is full.
PushedEvictingNewest(buf, deltaTime) ==
    LET pushed == Append(buf, RDiv(Num(1), deltaTime))
    IN  IF Len(pushed) > maxSamples THEN SubSeq(pushed, 1, Len(pushed) - 1) ELSE pushed

\* addFrameTime(deltaTime): this.frameRates after the call.
Pushed(buf, deltaTime) ==
    LET fps == RDiv(Num(1), deltaTime)
        pushed == Append(buf, fps)
    IN  IF Len(pushed) > maxSamples THEN Tail(pushed) ELSE pushed

AddFrameTime(deltaTime) ==
    /\ Len(recorded) < MaxFrames
    /\ Runs(Append(recorded, RDiv(Num(1), deltaTime))) <= MaxRuns
    /\ frameRates' = Pushed(frameRates, deltaTime)
    /\ recorded' = Append(recorded, RDiv(Num(1), deltaTime))
    /\ settings' = NoSettings

\* Short buffers of mixed frame times: at most MaxShort frames between two
\* reset() calls, of 15, 45 and 90 FPS in any order.
MaxShort == 6
ShortDeltaTimes == {Rat(1, 15), Rat(1, 45), Rat(1, 90)}

AddFrameTimeShort(deltaTime) ==
    /\ Len(recorded) < MaxShort
    /\ frameRates' = Pushed(frameRates, deltaTime)
    /\ recorded' = Append(recorded, RDiv(Num(1), deltaTime))
    /\ settings' = NoSettings

\* this.frameRates.reduce((a, b) => a + b, 0); the numbers are exact
\* fractions, whose addition is associative, so the sum is taken by halves.
RECURSIVE Reduce(_)
Reduce(buf) ==
    IF buf = <<>> THEN Num(0)
    ELSE IF Len(buf) = 1 THEN RAdd(Num(0), buf[1])
    ELSE RAdd(Reduce(SubSeq(buf, 1, Len(buf) \div 2)),
              Reduce(SubSeq(buf, Len(buf) \div 2 + 1, Len(buf))))

\* getAverageFPS()
GetAverageFPS(buf) ==
    IF Len(buf) = 0 THEN Num(60) ELSE RDiv(Reduce(buf), Num(Len(buf)))

\* A performance level that is not limited to [0, 1].
GetPerformanceLevelUnclamped(buf) ==
    RDiv(RSub(GetAverageFPS(buf), Num(minFPS)), RSub(Num(targetFPS), Num(minFPS)))

\* getPerformanceLevel()
GetPerformanceLevel(buf) ==
    LET avgFPS == GetAverageFPS(buf)
    IN  MathMin(Num(1), MathMax(Num(0),
            RDiv(RSub(avgFPS, Num(minFPS)), RSub(Num(targetFPS), Num(minFPS)))))

\* An adjustParticleCount whose medium tier asks for more than was requested.
AdjustParticleCountGenerous(buf, requestedCount) ==
    LET performanceLevel == GetPerformanceLevel(buf)
    IN  IF RLt(performanceLevel, Rat(3, 10))
        THEN MathFloor(RMul(requestedCount, Rat(1, 4)))
        ELSE IF RLt(performanceLevel, Rat(6, 10))
        THEN MathFloor(RMul(requestedCount, Rat(1, 2)))
        ELSE IF RLt(performanceLevel, Rat(8, 10))
        THEN MathFloor(RMul(requestedCount, Rat(5, 4)))
        ELSE requestedCount

\* adjustParticleCount(requestedCount)
AdjustParticleCount(buf, requestedCount) ==
    LET performanceLevel == GetPerformanceLevel(buf)
    IN  IF RLt(performanceLevel, Rat(3, 10))
        THEN MathFloor(RMul(requestedCount, Rat(1, 4)))
        ELSE IF RLt(performanceLevel, Rat(6, 10))
        THEN MathFloor(RMul(requestedCount, Rat(1, 2)))
        ELSE IF RLt(performanceLevel, Rat(8, 10))
        THEN MathFloor(RMul(requestedCount, Rat(3, 4)))
        ELSE requestedCount

\* getRecommendedLOD()
GetRecommendedLOD(buf) ==
    LET performanceLevel == GetPerformanceLevel(buf)
    IN  IF RLt(performanceLevel, Rat(3, 10)) THEN 3
        ELSE IF RLt(performanceLevel, Rat(6, 10)) THEN 2
        ELSE IF RLt(performanceLevel, Rat(8, 10)) THEN 1
        ELSE 0

\* shouldSkipExpensiveOperations()
ShouldSkipExpensiveOperations(buf) == RLt(GetPerformanceLevel(buf), Rat(4, 10))

\* getRenderScale()
GetRenderScale(buf) ==
    LET performanceLevel == GetPerformanceLevel(buf)
    IN  IF RLt(performanceLevel, Rat(3, 10)) THEN Rat(1, 2)
        ELSE IF RLt(performanceLevel, Rat(6, 10)) THEN Rat(3, 4)
        ELSE Num(1)

\* A shadow quality that stays 'low' up to a level of 0.6.
GetShadowQualityCoarse(buf) ==
    LET performanceLevel == GetPerformanceLevel(buf)
    IN  IF RLt(performanceLevel, Rat(3, 10)) THEN "none"
        ELSE IF RLt(performanceLevel, Rat(6, 10)) THEN "low"
        ELSE IF RLt(performanceLevel, Rat(8, 10)) THEN "medium"
        ELSE "high"

\* getShadowQuality()
GetShadowQuality(buf) ==
    LET performanceLevel == GetPerformanceLevel(buf)
    IN  IF RLt(performanceLevel, Rat(3, 10)) THEN "none"
        ELSE IF RLt(performanceLevel, Rat(5, 10)) THEN "low"
        ELSE IF RLt(performanceLevel, Rat(8, 10)) THEN "medium"
        ELSE "high"

\* The answers of the four getters on a buffer.
Settings(buf) ==
    [asked |-> TRUE,
     lod |-> GetRecommendedLOD(buf),
     shadow |-> GetShadowQuality(buf),
     scale |-> GetRenderScale(buf),
     skip |-> ShouldSkipExpensiveOperations(buf)]

\* A caller reads the four derived settings; none of the getters writes.
GetSettings ==
    /\ settings' = Settings(frameRates)
    /\ UNCHANGED <<frameRates, recorded>>

PerfReset ==
    /\ frameRates' = <<>>
    /\ recorded' = <<>>
    /\ settings' = NoSettings

PerfInit ==
    /\ frameRates = <<>>
    /\ recorded = <<>>
    /\ settings = NoSettings

-----------------------------------------------------------------------------
(* EffectManager                                                           *)

\* An argument left out of a call (JavaScript undefined).
Undefined == <<>>

\* An Effect of the catalog. Parameter values are only copied and merged by
\* the manager, never computed with: they are kept as their source text.
Effect(id, dependencies, conflictsWith, parameters) ==
    [id |-> id, dependencies |-> dependencies, conflictsWith |-> conflictsWith,
     parameters |-> parameters]

\* The catalog initializeDefaultEffects() builds, in Map order.
DefaultEffects == <<
    Effect("fire", <<>>, <<>>,
        ("temperature" :> "1.0") @@ ("spread" :> "1.0") @@ ("turbulence" :> "0.8")),
    Effect("water", <<>>, <<>>,
        ("viscosity" :> "0.1") @@ ("surfaceTension" :> "0.5") @@ ("flowSpeed" :> "1.0")),
    Effect("snow", <<>>, <<>>,
        ("windStrength" :> "0.5") @@ ("flakeSize" :> "1.0") @@ ("density" :> "1.0")),
    Effect("cosmic", <<>>, <<>>,
        ("starDensity" :> "0.5") @@ ("nebulaIntensity" :> "0.8") @@ ("cosmicRayFrequency" :> "0.3")),
    Effect("plasma", <<>>, <<>>,
        ("electricField" :> "2.0") @@ ("magneticStrength" :> "1.5") @@ ("plasmaFrequency" :> "10.0")),
    Effect("floating_islands", <<>>, <<>>,
        ("islandCount" :> "6") @@ ("vegetationDensity" :> "0.7") @@ ("floatAmplitude" :> "2.0")),
    Effect("crystals", <<>>, <<>>,
        ("growthSpeed" :> "0.5") @@ ("refractionIndex" :> "0.95") @@ ("energyLevel" :> "1.0")),
    Effect("energy_orbs", <<>>, <<>>,
        ("orbCount" :> "15") @@ ("trailLength" :> "100") @@ ("electricalForce" :> "1.0")),
    Effect("waves", <<>>, <<>>,
        ("waveHeight" :> "2.0") @@ ("frequency" :> "0.03") @@ ("interference" :> "true")),
    Effect("fractal_trees", <<>>, <<>>,
        ("complexity" :> "5") @@ ("branchingFactor" :> "0.8") @@ ("windEffect" :> "0.5")),
    Effect("geometric_shapes", <<>>, <<>>,
        ("morphingSpeed" :> "1.0") @@ ("geometricComplexity" :> "1.0") @@ ("rotationSpeed" :> "0.5")),
    Effect("liquid", <<>>, <<>>,
        ("viscosity" :> "0.1") @@ ("surfaceTension" :> "0.8") @@ ("particleDensity" :> "1.0")),
    Effect("bloom", <<>>, <<>>,
        ("strength" :> "1.0") @@ ("threshold" :> "0.3") @@ ("radius" :> "0.8")),
    Effect("chromatic_aberration", <<>>, <<>>,
        ("intensity" :> "0.002") @@ ("distortion" :> "1.0")),
    Effect("film_grain", <<>>, <<>>,
        ("grainIntensity" :> "0.3") @@ ("scanlineIntensity" :> "0.4")),
    Effect("kaleidoscope", <<>>, <<>>,
        ("sides" :> "6") @@ ("rotation" :> "0.1") @@ ("radius" :> "0.5")),
    Effect("pixelation", <<>>, <<>>,
        ("pixelSize" :> "4.0")),
    Effect("vortex", <<>>, <<>>,
        ("strength" :> "1.0") @@ ("center" :> "[0.5, 0.5]")),
    Effect("procedural_terrain", <<>>, <<>>,
        ("complexity" :> "64") @@ ("deformation" :> "1.0") @@ ("textureBlending" :> "true")),
    Effect("audio_reactive", <<"audio_context">>, <<>>,
        ("sensitivity" :> "1.0") @@ ("frequencyRange" :> "[20, 20000]") @@ ("visualizerType" :> "spectrum"))
>>

\* The Effect type also carries conflictsWith and dependencies on catalog
\* effects, which the default catalog does not use; this catalog does, so
\* that the branches of enableEffect that read them are exercised.
LayeredEffects == <<
    Effect("base", <<>>, <<>>, ("amount" :> "1.0")),
    Effect("overlay", <<"base">>, <<"mono">>, ("amount" :> "1.0")),
    Effect("mono", <<>>, <<"base">>, ("amount" :> "1.0"))
>>

Catalogs == {DefaultEffects, LayeredEffects}

\* The arguments the callers pass: two ids of each catalog that can be
\* enabled, one that cannot, and one no catalog knows.
EffectIds ==
    IF effects = DefaultEffects
    THEN {"fire", "water", "audio_reactive", "audio_context"}
    ELSE {"base", "overlay", "mono", "audio_context"}
Intensities == {Rat(3, 2), Num(3)}
GlobalIntensities == {Rat(-1, 1), Rat(1, 2)}
ParameterPatches == {("amount" :> "0.5") @@ ("temperature" :> "2.0")}

\* Configurations importConfiguration is handed that no export produced: a
\* global intensity above the range and the catalog's first effect at an
\* intensity below it, without parameters.
ForeignConfigs ==
    {[globalIntensity |-> Num(5),
      activeEffects |-> <<[id |-> effects[1].id, intensity |-> Rat(-1, 2),
                           parameters |-> Undefined]>>]}

CatalogIds == {effects[i].id : i \in 1..Len(effects)}
EffectById(id) == effects[CHOOSE i \in 1..Len(effects) : effects[i].id = id]

\* An intensity limited from above only.
Clamp02AboveOnly(intensity) == MathMin(Num(2), intensity)

\* Math.max(0, Math.min(2, intensity))
Clamp02(intensity) == MathMax(Num(0), MathMin(Num(2), intensity))

\* { ...a, ...b }
Spread(a, b) ==
    [k \in DOMAIN a \cup DOMAIN b |-> IF k \in DOMAIN b THEN b[k] ELSE a[k]]

\* The manager's fields as one value, with what a call in progress has logged:
\* the snapshots handed to the listeners and the conflicts it disabled.
Registry ==
    [order |-> activeOrder, states |-> activeEffects, global |-> globalIntensity,
     requested |-> requested, requestedGlobal |-> requestedGlobal,
     listeners |-> listeners,
     notified |-> <<>>, disabled |-> <<>>, delivered |-> <<>>, escaped |-> FALSE]

IsEffectActive(r, effectId) == effectId \in DOMAIN r.states

\* getActiveEffects(): the ids of the active states in Map order.
GetActiveEffects(r) == r.order

\* The listeners a caller registers: one that returns and one that throws.
Listeners == {"quiet", "throwing"}
Throws(listener) == listener = "throwing"

\* A notifyListeners without the try/catch: the first listener that throws
\* ends the loop and the exception leaves the method.
NotifyListenersUncaught(r) ==
    LET activeEffectsNow == GetActiveEffects(r)
        throwers == {i \in 1..Len(r.listeners) : Throws(r.listeners[i])}
        last == IF throwers = {} THEN Len(r.listeners)
                ELSE CHOOSE i \in throwers : \A j \in throwers : i <= j
    IN  [r EXCEPT !.notified = Append(@, activeEffectsNow),
                  !.delivered = @ \o [i \in 1..last |->
                                        [listener |-> r.listeners[i],
                                         effects |-> activeEffectsNow]],
                  !.escaped = @ \/ throwers # {}]

\* notifyListeners(): every listener is called with the active list; what a
\* listener throws is caught and logged.
NotifyListeners(r) ==
    LET activeEffectsNow == GetActiveEffects(r)
    IN  [r EXCEPT !.notified = Append(@, activeEffectsNow),
                  !.delivered = @ \o [i \in 1..Len(r.listeners) |->
                                        [listener |-> r.listeners[i],
                                         effects |-> activeEffectsNow]]]

Without(f, k) == [x \in DOMAIN f \ {k} |-> f[x]]
With(f, k, v) == (k :> v) @@ f
Remove(s, k) == SelectSeq(s, LAMBDA x : x # k)

\* A disableEffect that reports success whether or not the effect was active.
DisableEffectAlwaysTrue(r, effectId) ==
    IF IsEffectActive(r, effectId)
    THEN [reg |-> NotifyListeners([r EXCEPT !.states = Without(@, effectId),
                                            !.order = Remove(@, effectId),
                                            !.requested = Without(@, effectId)]),
          ret |-> TRUE]
    ELSE [reg |-> r, ret |-> TRUE]

\* disableEffect(effectId) -> [reg, ret]
DisableEffectOn(r, effectId) ==
    IF IsEffectActive(r, effectId)
    THEN [reg |-> NotifyListeners([r EXCEPT !.states = Without(@, effectId),
                                            !.order = Remove(@, effectId),
                                            !.requested = Without(@, effectId)]),
          ret |-> TRUE]
    ELSE [reg |-> r, ret |-> FALSE]

\* A manager that clears every active effect when a conflict is active.
DisableConflictsClearing(r, conflictsWith) ==
    LET hit == SelectSeq(conflictsWith, LAMBDA c : IsEffectActive(r, c))
    IN  IF hit = <<>> THEN r
        ELSE [NotifyListeners([r EXCEPT !.states = <<>>, !.order = <<>>,
                                        !.requested = <<>>])
                 EXCEPT !.disabled = hit]

\* A manager that leaves active conflicts alone.
DisableConflictsSkipped(r, conflictsWith) == r

\* effect.conflictsWith.forEach(...)
RECURSIVE DisableConflicts(_, _)
DisableConflicts(r, conflictsWith) ==
    IF conflictsWith = <<>> THEN r
    ELSE LET conflictId == Head(conflictsWith)
             r1 == IF IsEffectActive(r, conflictId)
                   THEN [DisableEffectOn(r, conflictId).reg
                            EXCEPT !.disabled = Append(@, conflictId)]
                   ELSE r
         IN  DisableConflicts(r1, Tail(conflictsWith))

\* A manager that never finds a dependency missing.
MissingDepsIgnored(r, effect) == <<>>

MissingDeps(r, effect) ==
    SelectSeq(effect.dependencies, LAMBDA dep : ~IsEffectActive(r, dep))

\* An enableEffect that keeps the parameters of an effect that is already
\* active.
EnableEffectKeepingOverrides(r, effectId, intensityArg) ==
    LET intensity == IF intensityArg = Undefined THEN Num(1) ELSE intensityArg
    IN  IF effectId \notin CatalogIds THEN [reg |-> r, ret |-> FALSE]
        ELSE LET effect == EffectById(effectId)
             IN  IF Len(MissingDeps(r, effect)) > 0 THEN [reg |-> r, ret |-> FALSE]
                 ELSE LET r1 == DisableConflicts(r, effect.conflictsWith)
                          effectState == [effect |-> effectId,
                                          enabled |-> TRUE,
                                          intensity |-> Clamp02(intensity),
                                          parameters |->
                                              IF IsEffectActive(r1, effectId)
                                              THEN r1.states[effectId].parameters
                                              ELSE effect.parameters]
                          r2 == [r1 EXCEPT
                                   !.states = With(@, effectId, effectState),
                                   !.order = IF IsEffectActive(r1, effectId)
                                             THEN @ ELSE Append(@, effectId),
                                   !.requested = With(@, effectId, intensity)]
                      IN  [reg |-> NotifyListeners(r2), ret |-> TRUE]

\* enableEffect(effectId, intensity = 1.0) -> [reg, ret]
EnableEffectOn(r, effectId, intensityArg) ==
    LET intensity == IF intensityArg = Undefined THEN Num(1) ELSE intensityArg
    IN  IF effectId \notin CatalogIds THEN [reg |-> r, ret |-> FALSE]
        ELSE LET effect == EffectById(effectId)
             IN  IF Len(MissingDeps(r, effect)) > 0 THEN [reg |-> r, ret |-> FALSE]
                 ELSE LET r1 == DisableConflicts(r, effect.conflictsWith)
                          effectState == [effect |-> effectId,
                                          enabled |-> TRUE,
                                          intensity |-> Clamp02(intensity),
                                          parameters |-> effect.parameters]
                          r2 == [r1 EXCEPT
                                   !.states = With(@, effectId, effectState),
                                   !.order = IF IsEffectActive(r1, effectId)
                                             THEN @ ELSE Append(@, effectId),
                                   !.requested = With(@, effectId, intensity)]
                      IN  [reg |-> NotifyListeners(r2), ret |-> TRUE]

\* toggleEffect(effectId, intensity?) -> [reg, ret]
ToggleEffectOn(r, effectId, intensityArg) ==
    IF IsEffectActive(r, effectId) THEN DisableEffectOn(r, effectId)
    ELSE EnableEffectOn(r, effectId, intensityArg)

\* setEffectIntensity(effectId, intensity) -> [reg, ret]
SetEffectIntensityOn(r, effectId, intensity) ==
    IF IsEffectActive(r, effectId)
    THEN [reg |-> NotifyListeners(
                    [r EXCEPT !.states[effectId].intensity = Clamp02(intensity),
                              !.requested[effectId] = intensity]),
          ret |-> TRUE]
    ELSE [reg |-> r, ret |-> FALSE]

\* setEffectParameters(effectId, parameters) -> [reg, ret]
SetEffectParametersOn(r, effectId, parameters) ==
    IF IsEffectActive(r, effectId)
    THEN [reg |-> NotifyListeners(
                    [r EXCEPT !.states[effectId].parameters = Spread(@, parameters)]),
          ret |-> TRUE]
    ELSE [reg |-> r, ret |-> FALSE]

\* A manager that stores the global intensity as given.
SetGlobalIntensityUnclamped(r, intensity) ==
    NotifyListeners([r EXCEPT !.global = intensity, !.requestedGlobal = intensity])

\* setGlobalIntensity(intensity) -> reg
SetGlobalIntensityOn(r, intensity) ==
    NotifyListeners([r EXCEPT !.global = Clamp02(intensity),
                              !.requestedGlobal = intensity])

\* getEffectiveIntensity(effectId)
GetEffectiveIntensity(effectId) ==
    IF effectId \in DOMAIN activeEffects
    THEN RMul(activeEffects[effectId].intensity, globalIntensity)
    ELSE Num(0)

\* disableAllEffects() -> reg
DisableAllEffectsOn(r) ==
    NotifyListeners([r EXCEPT !.states = <<>>, !.order = <<>>, !.requested = <<>>])

\* enableAllEffects() -> reg: this.effects.forEach((effect, id) => enableEffect(id, 1.0))
RECURSIVE EnableEach(_, _)
EnableEach(r, catalog) ==
    IF catalog = <<>> THEN r
    ELSE LET en == EnableEffectOn(r, Head(catalog).id, Num(1))
         IN  \* an effect that could not be enabled leaves the manager as it was
             IF en.ret THEN EnableEach(en.reg, Tail(catalog))
             ELSE EnableEach(r, Tail(catalog))

EnableAllEffectsOn(r) == EnableEach(r, effects)

\* An export that writes the catalog defaults instead of the live parameters.
ExportDefaultParameters ==
    [globalIntensity |-> globalIntensity,
     activeEffects |-> [i \in 1..Len(activeOrder) |->
                          [id |-> activeOrder[i],
                           intensity |-> activeEffects[activeOrder[i]].intensity,
                           parameters |-> EffectById(activeOrder[i]).parameters]]]

\* exportConfiguration(): activeEffects is the object's entries in key order.
ExportConfiguration ==
    [globalIntensity |-> globalIntensity,
     activeEffects |-> [i \in 1..Len(activeOrder) |->
                          [id |-> activeOrder[i],
                           intensity |-> activeEffects[activeOrder[i]].intensity,
                           parameters |-> activeEffects[activeOrder[i]].parameters]]]

\* Object.entries(config.activeEffects).forEach(...)
RECURSIVE ImportEntries(_, _)
ImportEntries(r, entries) ==
    IF entries = <<>> THEN r
    ELSE LET e == Head(entries)
             en == EnableEffectOn(r, e.id, e.intensity)
         IN  IF en.ret /\ e.parameters # Undefined
             THEN ImportEntries(SetEffectParametersOn(en.reg, e.id, e.parameters).reg,
                                Tail(entries))
             ELSE ImportEntries(en.reg, Tail(entries))

\* importConfiguration(config) -> reg
ImportConfigurationOn(r, config) ==
    LET r1 == DisableAllEffectsOn(r)
        r2 == IF config.globalIntensity # Undefined
              THEN SetGlobalIntensityOn(r1, config.globalIntensity)
              ELSE r1
    IN  IF config.activeEffects # Undefined
        THEN ImportEntries(r2, config.activeEffects)
        ELSE r2

\* What a call leaves in the manager's fields, and what it returned and logged.
Commit(op, effectId, res) ==
    /\ activeOrder' = res.reg.order
    /\ activeEffects' = res.reg.states
    /\ globalIntensity' = res.reg.global
    /\ requested' = res.reg.requested
    /\ requestedGlobal' = res.reg.requestedGlobal
    /\ lastEffectCall' = [op |-> op, id |-> effectId, ret |-> res.ret,
                          disabled |-> res.reg.disabled,
                          notified |-> res.reg.notified,
                          delivered |-> res.reg.delivered,
                          escaped |-> res.reg.escaped]
    /\ UNCHANGED <<effects, listeners>>

EnableEffect(effectId, intensity) ==
    Commit("enableEffect", effectId, EnableEffectOn(Registry, effectId, intensity))

DisableEffect(effectId) ==
    Commit("disableEffect", effectId, DisableEffectOn(Registry, effectId))

ToggleEffect(effectId, intensity) ==
    Commit("toggleEffect", effectId, ToggleEffectOn(Registry, effectId, intensity))

SetEffectIntensity(effectId, intensity) ==
    Commit("setEffectIntensity", effectId,
           SetEffectIntensityOn(Registry, effectId, intensity))

SetEffectParameters(effectId, parameters) ==
    Commit("setEffectParameters", effectId,
           SetEffectParametersOn(Registry, effectId, parameters))

SetGlobalIntensity(intensity) ==
    Commit("setGlobalIntensity", "", [reg |-> SetGlobalIntensityOn(Registry, intensity),
                                      ret |-> TRUE])

EnableAllEffects ==
    Commit("enableAllEffects", "", [reg |-> EnableAllEffectsOn(Registry), ret |-> TRUE])

DisableAllEffects ==
    Commit("disableAllEffects", "", [reg |-> DisableAllEffectsOn(Registry), ret |-> TRUE])

\* importConfiguration(exportConfiguration()) on the same manager.
ImportExported ==
    Commit("importConfiguration", "",
           [reg |-> ImportConfigurationOn(Registry, ExportConfiguration), ret |-> TRUE])

\* importConfiguration(config) with a configuration written by hand, logged
\* apart from the import of the manager's own export
ImportConfiguration(config) ==
    Commit("importForeign", "",
           [reg |-> ImportConfigurationOn(Registry, config), ret |-> TRUE])

\* A call that touches the listener set only.
ListenerCall(op, listener) ==
    /\ lastEffectCall' = [op |-> op, id |-> listener, ret |-> TRUE,
                          disabled |-> <<>>, notified |-> <<>>,
                          delivered |-> <<>>, escaped |-> FALSE]
    /\ UNCHANGED <<effects, activeOrder, activeEffects, globalIntensity,
                   requested, requestedGlobal>>

\* addListener(listener): Set.add
AddListener(listener) ==
    /\ listeners' = IF \E i \in 1..Len(listeners) : listeners[i] = listener
                    THEN listeners ELSE Append(listeners, listener)
    /\ ListenerCall("addListener", listener)

\* removeListener(listener): Set.delete
RemoveListener(listener) ==
    /\ listeners' = Remove(listeners, listener)
    /\ ListenerCall("removeListener", listener)

EffectInit ==
    /\ effects \in Catalogs
    /\ activeOrder = <<>>
    /\ activeEffects = <<>>
    /\ globalIntensity = Num(1)
    /\ requested = <<>>
    /\ requestedGlobal = Num(1)
    /\ listeners = <<>>
    /\ lastEffectCall = [op |-> "new", id |-> "", ret |-> TRUE,
                         disabled |-> <<>>, notified |-> <<>>,
                         delivered |-> <<>>, escaped |-> FALSE]

-----------------------------------------------------------------------------
(* AnimationSequencer: keyframes, tracks and sequences                     *)

\* A keyframe property value: a number, an array of numbers, any other value
\* (kept as text), or undefined (a key the bag does not have).
Number(x) == [type |-> "number", nums |-> <<x>>, text |-> ""]
Array(xs) == [type |-> "array", nums |-> xs, text |-> ""]
Text(t) == [type |-> "other", nums |-> <<>>, text |-> t]
UndefinedValue == [type |-> "undefined", nums |-> <<>>, text |-> ""]

\* AnimationKeyframe; easing is "none" when the keyframe has no easing function.
Keyframe(time, properties, easing) ==
    [time |-> time, properties |-> properties, easing |-> easing]

\* AnimationTrack
Track(id, keyframes) == [id |-> id, keyframes |-> keyframes]

\* AnimationSequence; callbacks tells whether onStart, onUpdate and
\* onComplete are given.
Sequence(id, duration, loop, callbacks, tracks) ==
    [id |-> id, duration |-> duration, loop |-> loop, callbacks |-> callbacks,
     tracks |-> tracks]

\* The easing functions keyframes refer to.
Ease(easing, t) == IF easing = "quad" THEN RMul(t, t) ELSE t

\* The sequence objects of the program, by object identity: the five that
\* initializeDefaultSequences() registers, and the one a caller hands to
\* addSequence(): a one-shot sequence with callbacks, an eased number and a
\* property that is neither a number nor an array, and a one-shot sequence of
\* duration 0 without tracks, and a one-shot sequence whose callbacks throw.
SequenceObjects ==
    "cosmic" :> Sequence("cosmic", Num(60), TRUE, FALSE, <<
        Track("camera", <<
                Keyframe(Num(0), ("position" :> Array(<<Num(0), Num(40), Num(80)>>)) @@ ("target" :> Array(<<Num(0), Num(10), Num(0)>>)), "none"),
                Keyframe(Num(15), ("position" :> Array(<<Num(50), Num(60), Num(50)>>)) @@ ("target" :> Array(<<Num(20), Num(5), Num(20)>>)), "none"),
                Keyframe(Num(30), ("position" :> Array(<<Num(-30), Num(80), Num(60)>>)) @@ ("target" :> Array(<<Num(-10), Num(15), Num(10)>>)), "none"),
                Keyframe(Num(45), ("position" :> Array(<<Num(0), Num(100), Num(100)>>)) @@ ("target" :> Array(<<Num(0), Num(20), Num(0)>>)), "none"),
                Keyframe(Num(60), ("position" :> Array(<<Num(0), Num(40), Num(80)>>)) @@ ("target" :> Array(<<Num(0), Num(10), Num(0)>>)), "none")>>),
        Track("particles", <<
                Keyframe(Num(0), ("intensity" :> Number(Num(1))) @@ ("count" :> Number(Num(5000))), "none"),
                Keyframe(Num(20), ("intensity" :> Number(Rat(3, 2))) @@ ("count" :> Number(Num(8000))), "none"),
                Keyframe(Num(40), ("intensity" :> Number(Num(2))) @@ ("count" :> Number(Num(10000))), "none"),
                Keyframe(Num(60), ("intensity" :> Number(Num(1))) @@ ("count" :> Number(Num(5000))), "none")>>),
        Track("lighting", <<
                Keyframe(Num(0), ("color" :> Text("#4466ff")) @@ ("intensity" :> Number(Num(1))), "none"),
                Keyframe(Num(30), ("color" :> Text("#6644ff")) @@ ("intensity" :> Number(Rat(6, 5))), "none"),
                Keyframe(Num(60), ("color" :> Text("#4466ff")) @@ ("intensity" :> Number(Num(1))), "none")>>)>>) @@
    "fire" :> Sequence("fire", Num(45), TRUE, FALSE, <<
        Track("camera", <<
                Keyframe(Num(0), ("position" :> Array(<<Num(15), Num(25), Num(45)>>)) @@ ("target" :> Array(<<Num(0), Num(5), Num(0)>>)), "none"),
                Keyframe(Num(15), ("position" :> Array(<<Num(30), Num(20), Num(30)>>)) @@ ("target" :> Array(<<Num(5), Num(8), Num(5)>>)), "none"),
                Keyframe(Num(30), ("position" :> Array(<<Num(0), Num(35), Num(50)>>)) @@ ("target" :> Array(<<Num(0), Num(10), Num(0)>>)), "none"),
                Keyframe(Num(45), ("position" :> Array(<<Num(15), Num(25), Num(45)>>)) @@ ("target" :> Array(<<Num(0), Num(5), Num(0)>>)), "none")>>),
        Track("fire_intensity", <<
                Keyframe(Num(0), ("heat" :> Number(Num(1))) @@ ("spread" :> Number(Num(1))), "none"),
                Keyframe(Num(10), ("heat" :> Number(Rat(9, 5))) @@ ("spread" :> Number(Rat(3, 2))), "none"),
                Keyframe(Num(25), ("heat" :> Number(Rat(11, 5))) @@ ("spread" :> Number(Num(2))), "none"),
                Keyframe(Num(35), ("heat" :> Number(Rat(3, 2))) @@ ("spread" :> Number(Rat(6, 5))), "none"),
                Keyframe(Num(45), ("heat" :> Number(Num(1))) @@ ("spread" :> Number(Num(1))), "none")>>)>>) @@
    "water" :> Sequence("water", Num(50), TRUE, FALSE, <<
        Track("camera", <<
                Keyframe(Num(0), ("position" :> Array(<<Num(-20), Num(20), Num(60)>>)) @@ ("target" :> Array(<<Num(0), Num(0), Num(0)>>)), "none"),
                Keyframe(Num(20), ("position" :> Array(<<Num(40), Num(15), Num(40)>>)) @@ ("target" :> Array(<<Num(10), Num(-5), Num(10)>>)), "none"),
                Keyframe(Num(40), ("position" :> Array(<<Num(-10), Num(30), Num(80)>>)) @@ ("target" :> Array(<<Num(-5), Num(5), Num(-5)>>)), "none"),
                Keyframe(Num(50), ("position" :> Array(<<Num(-20), Num(20), Num(60)>>)) @@ ("target" :> Array(<<Num(0), Num(0), Num(0)>>)), "none")>>),
        Track("water_flow", <<
                Keyframe(Num(0), ("speed" :> Number(Num(1))) @@ ("turbulence" :> Number(Rat(1, 2))), "none"),
                Keyframe(Num(15), ("speed" :> Number(Rat(3, 2))) @@ ("turbulence" :> Number(Rat(4, 5))), "none"),
                Keyframe(Num(30), ("speed" :> Number(Num(2))) @@ ("turbulence" :> Number(Rat(6, 5))), "none"),
                Keyframe(Num(50), ("speed" :> Number(Num(1))) @@ ("turbulence" :> Number(Rat(1, 2))), "none")>>)>>) @@
    "crystal" :> Sequence("crystal", Num(40), TRUE, FALSE, <<
        Track("camera", <<
                Keyframe(Num(0), ("position" :> Array(<<Num(30), Num(35), Num(50)>>)) @@ ("target" :> Array(<<Num(0), Num(15), Num(0)>>)), "none"),
                Keyframe(Num(20), ("position" :> Array(<<Num(60), Num(25), Num(30)>>)) @@ ("target" :> Array(<<Num(20), Num(10), Num(10)>>)), "none"),
                Keyframe(Num(40), ("position" :> Array(<<Num(30), Num(35), Num(50)>>)) @@ ("target" :> Array(<<Num(0), Num(15), Num(0)>>)), "none")>>),
        Track("crystal_growth", <<
                Keyframe(Num(0), ("scale" :> Number(Rat(4, 5))) @@ ("energy" :> Number(Num(1))), "none"),
                Keyframe(Num(10), ("scale" :> Number(Rat(6, 5))) @@ ("energy" :> Number(Rat(3, 2))), "none"),
                Keyframe(Num(20), ("scale" :> Number(Rat(3, 2))) @@ ("energy" :> Number(Num(2))), "none"),
                Keyframe(Num(30), ("scale" :> Number(Rat(11, 10))) @@ ("energy" :> Number(Rat(13, 10))), "none"),
                Keyframe(Num(40), ("scale" :> Number(Rat(4, 5))) @@ ("energy" :> Number(Num(1))), "none")>>)>>) @@
    "plasma" :> Sequence("plasma", Num(35), TRUE, FALSE, <<
        Track("camera", <<
                Keyframe(Num(0), ("position" :> Array(<<Num(0), Num(60), Num(100)>>)) @@ ("target" :> Array(<<Num(0), Num(20), Num(0)>>)), "none"),
                Keyframe(Num(12), ("position" :> Array(<<Num(80), Num(40), Num(60)>>)) @@ ("target" :> Array(<<Num(30), Num(25), Num(20)>>)), "none"),
                Keyframe(Num(25), ("position" :> Array(<<Num(-60), Num(80), Num(80)>>)) @@ ("target" :> Array(<<Num(-20), Num(30), Num(20)>>)), "none"),
                Keyframe(Num(35), ("position" :> Array(<<Num(0), Num(60), Num(100)>>)) @@ ("target" :> Array(<<Num(0), Num(20), Num(0)>>)), "none")>>),
        Track("plasma_energy", <<
                Keyframe(Num(0), ("field_strength" :> Number(Num(1))) @@ ("frequency" :> Number(Num(8))), "none"),
                Keyframe(Num(8), ("field_strength" :> Number(Rat(5, 2))) @@ ("frequency" :> Number(Num(15))), "none"),
                Keyframe(Num(18), ("field_strength" :> Number(Num(3))) @@ ("frequency" :> Number(Num(20))), "none"),
                Keyframe(Num(28), ("field_strength" :> Number(Rat(9, 5))) @@ ("frequency" :> Number(Num(12))), "none"),
                Keyframe(Num(35), ("field_strength" :> Number(Num(1))) @@ ("frequency" :> Number(Num(8))), "none")>>)>>) @@
    "once" :> Sequence("once", Num(5), FALSE, TRUE, <<
        Track("fade", <<
                Keyframe(Num(0), ("x" :> Number(Num(0))) @@ ("mode" :> Text("in")), "none"),
                Keyframe(Num(5), ("x" :> Number(Num(100))) @@ ("mode" :> Text("out")), "quad")>>)>>) @@
    "zero" :> Sequence("zero", Num(0), FALSE, TRUE, <<>>) @@
    "thrower" :> Sequence("thrower", Num(5), FALSE, TRUE, <<>>) @@
    "encore" :> Sequence("once", Num(10), TRUE, FALSE, <<>>)

NoSequence == ""
NoId == ""
DefaultSequences == {"cosmic", "fire", "water", "crystal", "plasma"}

\* The arguments the callers pass.
AddedSequences == {"once"}
PlayedIds == {"plasma", "once", "missing", NoId}
RemovedIds == {"once", "missing"}
Speeds == {Num(0), Num(10)}
SeekTargets == {Rat(-1, 2), Rat(1, 2), Rat(3, 2)}
TickSteps == {20000}
DegenerateSequences == {"zero"}
MaxSubscribers == 2
ThrowingSequences == {"thrower"}
ThrowingIds == {"plasma", "thrower"}
DegenerateIds == {"zero", "plasma", NoId}
ReplacingSequences == {"once", "encore"}
ReplacedIds == {"once", NoId}

\* Bound of the exploration: the clock ticks the run sees.
MaxTicks == 3

Current == SequenceObjects[currentSequence]

-----------------------------------------------------------------------------
(* interpolateTrack                                                        *)

\* prevValue + (nextValue - prevValue) * easedT
Lerp(a, b, easedT) == RAdd(a, RMul(RSub(b, a), easedT))

\* One property of the interpolated bag.
BlendValue(prevValue, nextValue, easedT) ==
    IF prevValue.type = "number" /\ nextValue.type = "number"
    THEN Number(Lerp(prevValue.nums[1], nextValue.nums[1], easedT))
    ELSE IF prevValue.type = "array" /\ nextValue.type = "array"
    THEN Array([index \in 1..Len(prevValue.nums) |->
                  IF index <= Len(nextValue.nums)
                  THEN Lerp(prevValue.nums[index], nextValue.nums[index], easedT)
                  ELSE NaN])
    ELSE IF RLt(easedT, Rat(1, 2)) THEN prevValue ELSE nextValue

\* The keyframes around `time`: the first consecutive pair that contains it,
\* or else the first and the last keyframe.
Surrounding(keyframes, time) ==
    LET pairs == {i \in 1..(Len(keyframes) - 1) :
                    RGe(time, keyframes[i].time) /\ RLe(time, keyframes[i + 1].time)}
    IN  IF pairs = {}
        THEN [prev |-> keyframes[1], next |-> keyframes[Len(keyframes)]]
        ELSE LET i == CHOOSE k \in pairs : \A j \in pairs : k <= j
             IN  [prev |-> keyframes[i], next |-> keyframes[i + 1]]

\* The interpolation between two keyframes.
Between(prevKeyframe, nextKeyframe, time) ==
    LET duration == RSub(nextKeyframe.time, prevKeyframe.time)
        t == RDiv(RSub(time, prevKeyframe.time), duration)
        easedT == Ease(nextKeyframe.easing, t)
    IN  [key \in DOMAIN prevKeyframe.properties |->
           BlendValue(prevKeyframe.properties[key],
                      IF key \in DOMAIN nextKeyframe.properties
                      THEN nextKeyframe.properties[key] ELSE UndefinedValue,
                      easedT)]

\* An interpolateTrack without the two early returns at the ends of the track.
InterpolateTrackUnclamped(track, time) ==
    IF Len(track.keyframes) = 0 THEN <<>>
    ELSE LET s == Surrounding(track.keyframes, time)
         IN  Between(s.prev, s.next, time)

\* interpolateTrack(track, time)
InterpolateTrack(track, time) ==
    IF Len(track.keyframes) = 0 THEN <<>>
    ELSE LET s == Surrounding(track.keyframes, time)
         IN  IF RLe(time, s.prev.time) THEN s.prev.properties
             ELSE IF RGe(time, s.next.time) THEN s.next.properties
             ELSE Between(s.prev, s.next, time)

\* The tracks and query times interpolateTrack is tried on: every track of
\* up to MaxKeyframes keyframes with times among KeyframeTimes, in any order
\* (the function does not check the order), each keyframe with a bag of its
\* own and the second one eased.
MaxKeyframes == 3
KeyframeTimes == {Num(0), Num(10), Num(20)}
TestTimes == {Num(-5), Num(0), Num(5), Num(10), Num(15), Num(20), Num(25)}
Labels == <<"first", "second", "third", "fourth", "fifth">>

TestBag(i) ==
    ("x" :> Number(Num(100 * i))) @@ ("at" :> Array(<<Num(i), Num(-i)>>))
        @@ ("mode" :> Text(Labels[i]))

TestTracks ==
    UNION {{Track("test", [i \in 1..n |->
                Keyframe(times[i], TestBag(i), IF i = 2 THEN "quad" ELSE "none")]) :
              times \in [1..n -> KeyframeTimes]} : n \in 0..MaxKeyframes}

\* Two-keyframe tracks whose one property "v" takes every pairing of a
\* number, arrays of two and of three numbers, and a string, or is absent
\* from the second keyframe; queried strictly between the keyframes.
SwitchValues ==
    {Number(Num(1)), Number(Num(3)), Array(<<Num(0), Num(10)>>),
     Array(<<Num(4), Num(8), Num(12)>>), Text("in"), Text("out")}
SwitchTimes == {Num(2), Num(5), Num(8)}
Easings == {"none", "quad"}

SwitchTracks ==
    {Track("switch", <<Keyframe(Num(0), "v" :> prevValue, "none"),
                       Keyframe(Num(10), "v" :> nextValue, easing)>>) :
        prevValue \in SwitchValues, nextValue \in SwitchValues, easing \in Easings}
    \cup
    {Track("switch", <<Keyframe(Num(0), "v" :> prevValue, "none"),
                       Keyframe(Num(10), "w" :> Number(Num(7)), easing)>>) :
        prevValue \in SwitchValues, easing \in Easings}

NotCalled == [done |-> FALSE, value |-> <<>>]

\* The call interpolateTrack(itTrack, itTime)
Interpolate ==
    /\ ~itResult.done
    /\ itResult' = [done |-> TRUE, value |-> InterpolateTrack(itTrack, itTime)]
    /\ UNCHANGED <<itTrack, itTime>>

-----------------------------------------------------------------------------
(* AnimationSequencer: operations                                          *)

Idle == [phase |-> "idle", p |-> Num(0), at |-> 0, was |-> Num(1)]
NoRun == [clean |-> FALSE, since |-> 0, loops |-> 0]

\* addSequence(sequence), for the sequence object `object`
AddSequence(object) ==
    /\ sequences' = With(sequences, SequenceObjects[object].id, object)
    /\ emitted' = <<"sequenceAdded">>
    /\ frameData' = <<>>
    /\ lastCall' = "addSequence"
    /\ obs' = Idle
    /\ run' = NoRun
    /\ UNCHANGED <<currentSequence, startTime, isPlaying, speed, progress, now,
                   completeCount>>

\* removeSequence(id)
RemoveSequence(id) ==
    /\ sequences' = Without(sequences, id)
    /\ emitted' = IF id \in DOMAIN sequences THEN <<"sequenceRemoved">> ELSE <<>>
    /\ frameData' = <<>>
    /\ lastCall' = "removeSequence"
    /\ obs' = Idle
    /\ run' = NoRun
    /\ UNCHANGED <<currentSequence, startTime, isPlaying, speed, progress, now,
                   completeCount>>

\* play(sequenceId?); `if (sequenceId)` is false for a missing argument and
\* for the empty string alike.
Play(sequenceId) ==
    LET found == sequenceId = NoId \/ sequenceId \in DOMAIN sequences
        selected == IF sequenceId = NoId THEN currentSequence
                    ELSE IF found THEN sequences[sequenceId] ELSE currentSequence
        started == found /\ selected # NoSequence
    IN  /\ currentSequence' = selected
        /\ isPlaying' = IF started THEN TRUE ELSE isPlaying
        /\ startTime' = IF started THEN Num(now) ELSE startTime
        /\ emitted' = IF ~started THEN <<>>
                      ELSE IF SequenceObjects[selected].callbacks
                      THEN <<"onStart", "play">> ELSE <<"play">>
        /\ frameData' = <<>>
        /\ completeCount' = IF started THEN 0 ELSE completeCount
        /\ lastCall' = "play"
        /\ obs' = IF started /\ sequenceId = NoId /\ obs.phase = "paused"
                  THEN [obs EXCEPT !.phase = "resumed", !.at = now]
                  ELSE Idle
        /\ run' = IF started THEN [clean |-> TRUE, since |-> now, loops |-> 0]
                  ELSE NoRun
        /\ UNCHANGED <<sequences, speed, progress, now>>

\* pause()
Pause ==
    /\ isPlaying' = FALSE
    /\ emitted' = <<"pause">>
    /\ frameData' = <<>>
    /\ lastCall' = "pause"
    /\ obs' = IF isPlaying /\ currentSequence # NoSequence /\ lastCall = "update"
              THEN [phase |-> "paused", p |-> progress, at |-> now, was |-> Num(1)]
              ELSE Idle
    /\ run' = NoRun
    /\ UNCHANGED <<sequences, currentSequence, startTime, speed, progress, now,
                   completeCount>>

\* stop()
Stop ==
    /\ isPlaying' = FALSE
    /\ progress' = Num(0)
    /\ startTime' = Num(0)
    /\ emitted' = <<"stop">>
    /\ frameData' = <<>>
    /\ lastCall' = "stop"
    /\ obs' = Idle
    /\ run' = NoRun
    /\ UNCHANGED <<sequences, currentSequence, speed, now, completeCount>>

\* A speed limited from above only.
ClampSpeedAboveOnly(speedArg) == MathMin(Num(5), speedArg)

\* Math.max(0.1, Math.min(5, speed))
ClampSpeed(speedArg) == MathMax(Rat(1, 10), MathMin(Num(5), speedArg))

\* setSpeed(speed)
SetSpeed(speedArg) ==
    /\ speed' = ClampSpeed(speedArg)
    /\ emitted' = <<"speedChanged">>
    /\ frameData' = <<>>
    /\ lastCall' = "setSpeed"
    /\ obs' = IF isPlaying /\ currentSequence # NoSequence /\ lastCall = "update"
              THEN [phase |-> "sped", p |-> progress, at |-> now, was |-> speed]
              ELSE Idle
    /\ run' = NoRun
    /\ UNCHANGED <<sequences, currentSequence, startTime, isPlaying, progress, now,
                   completeCount>>

\* An update() that leaves isPlaying set when a one-shot sequence ends.
UpdatedStillPlaying ==
    LET elapsed == RMul(RMul(RSub(Num(now), startTime), Rat(1, 1000)), speed)
        raw == RDiv(elapsed, Current.duration)
        wraps == RGe(raw, Num(1)) /\ Current.loop
        ends == RGe(raw, Num(1)) /\ ~Current.loop
        shown == IF wraps THEN Num(0) ELSE raw
        currentTime == RMul(shown, Current.duration)
    IN  IF ~isPlaying \/ currentSequence = NoSequence
        THEN [startTime |-> startTime, isPlaying |-> isPlaying, progress |-> progress,
              emitted |-> <<>>, frameData |-> <<>>]
        ELSE IF ends
        THEN [startTime |-> startTime, isPlaying |-> TRUE, progress |-> Num(1),
              emitted |-> IF Current.callbacks THEN <<"onComplete", "complete">>
                          ELSE <<"complete">>,
              frameData |-> <<>>]
        ELSE [startTime |-> IF wraps THEN Num(now) ELSE startTime,
              isPlaying |-> TRUE,
              progress |-> shown,
              emitted |-> (IF wraps THEN <<"loop">> ELSE <<>>)
                          \o (IF Current.callbacks THEN <<"onUpdate">> ELSE <<>>)
                          \o <<"update">>,
              frameData |-> [i \in 1..Len(Current.tracks) |->
                               [track |-> Current.tracks[i].id,
                                data |-> InterpolateTrack(Current.tracks[i], currentTime)]]]

\* update(): the fields it writes, what it fires, and the data of its
\* 'update' event (one entry per track, in track order).
Updated ==
    LET elapsed == RMul(RMul(RSub(Num(now), startTime), Rat(1, 1000)), speed)
        raw == RDiv(elapsed, Current.duration)
        wraps == RGe(raw, Num(1)) /\ Current.loop
        ends == RGe(raw, Num(1)) /\ ~Current.loop
        shown == IF wraps THEN Num(0) ELSE raw
        currentTime == RMul(shown, Current.duration)
    IN  IF ~isPlaying \/ currentSequence = NoSequence
        THEN [startTime |-> startTime, isPlaying |-> isPlaying, progress |-> progress,
              emitted |-> <<>>, frameData |-> <<>>]
        ELSE IF ends
        THEN [startTime |-> startTime, isPlaying |-> FALSE, progress |-> Num(1),
              emitted |-> IF Current.callbacks THEN <<"onComplete", "complete">>
                          ELSE <<"complete">>,
              frameData |-> <<>>]
        ELSE [startTime |-> IF wraps THEN Num(now) ELSE startTime,
              isPlaying |-> TRUE,
              progress |-> shown,
              emitted |-> (IF wraps THEN <<"loop">> ELSE <<>>)
                          \o (IF Current.callbacks THEN <<"onUpdate">> ELSE <<>>)
                          \o <<"update">>,
              frameData |-> [i \in 1..Len(Current.tracks) |->
                               [track |-> Current.tracks[i].id,
                                data |-> InterpolateTrack(Current.tracks[i], currentTime)]]]

Count(events, name) == Len(SelectSeq(events, LAMBDA e : e = name))

Update ==
    LET u == Updated
        live == isPlaying /\ currentSequence # NoSequence
    IN  /\ startTime' = u.startTime
        /\ isPlaying' = u.isPlaying
        /\ progress' = u.progress
        /\ emitted' = u.emitted
        /\ frameData' = u.frameData
        /\ completeCount' = completeCount + Count(u.emitted, "complete")
        /\ lastCall' = "update"
        /\ obs' = IF live /\ obs.phase = "resumed" /\ obs.at = now
                  THEN [obs EXCEPT !.phase = "resumeChecked"]
                  ELSE IF live /\ obs.phase = "sought" /\ obs.at = now
                  THEN [obs EXCEPT !.phase = "seekChecked"]
                  ELSE IF live /\ obs.phase = "sped" /\ obs.at = now
                  THEN [obs EXCEPT !.phase = "speedChecked"]
                  ELSE Idle
        /\ run' = IF run.clean /\ u.isPlaying
                  THEN [run EXCEPT !.loops = @ + Count(u.emitted, "loop")]
                  ELSE NoRun
        /\ UNCHANGED <<sequences, currentSequence, speed, now>>

\* A seek that forgets the playback speed in the anchor.
SeekAnchorIgnoringSpeed(clamped) ==
    RSub(Num(now), RMul(RMul(clamped, Current.duration), Num(1000)))

\* Date.now() - (this.progress * this.currentSequence.duration * 1000 / this.speed)
SeekAnchor(clamped) ==
    RSub(Num(now), RDiv(RMul(RMul(clamped, Current.duration), Num(1000)), speed))

\* seek(progress)
Seek(progressArg) ==
    LET clamped == MathMax(Num(0), MathMin(Num(1), progressArg))
    IN  /\ lastCall' = "seek"
        /\ frameData' = <<>>
        /\ run' = NoRun
        /\ IF currentSequence = NoSequence
           THEN /\ emitted' = <<>>
                /\ obs' = Idle
                /\ UNCHANGED <<progress, startTime>>
           ELSE /\ progress' = clamped
                /\ startTime' = SeekAnchor(clamped)
                /\ emitted' = <<"seek">>
                /\ obs' = IF isPlaying
                          THEN [phase |-> "sought", p |-> progressArg, at |-> now, was |-> Num(1)]
                          ELSE Idle
        /\ UNCHANGED <<sequences, currentSequence, isPlaying, speed, now,
                       completeCount>>

\* Time passes between two calls.
Tick(ms) ==
    /\ (now + ms) \div ms <= MaxTicks
    /\ now' = now + ms
    /\ lastCall' = "wait"
    /\ emitted' = <<>>
    /\ frameData' = <<>>
    /\ obs' = IF obs.phase = "paused" THEN obs ELSE Idle
    /\ UNCHANGED <<sequences, currentSequence, startTime, isPlaying, speed, progress,
                   completeCount, run>>

\* EventEmitter.emit(event): the listeners are called in registration order;
\* an exception of one of them leaves emit at once.
EmitTo(event, subs) ==
    LET throwers == {i \in DOMAIN subs : Throws(subs[i])}
        last == IF throwers = {} THEN Len(subs)
                ELSE CHOOSE i \in throwers : \A j \in throwers : i <= j
    IN  [delivered |-> [i \in 1..last |-> [call |-> event, to |-> subs[i]]],
         escaped |-> throwers # {}]

Callbacks == {"onStart", "onUpdate", "onComplete"}
Silent == [delivered |-> <<>>, escaped |-> FALSE]

\* The callbacks of the current sequence throw.
CallbackThrows(handle) == handle = "thrower"

\* The calls of a method body in order, `sequence?.onX()` and `this.emit()`
\* alike, up to the first one that throws.
RECURSIVE Delivered(_, _, _)
Delivered(calls, subs, callbackThrows) ==
    IF calls = <<>> THEN Silent
    ELSE LET first == IF Head(calls) \in Callbacks
                      THEN [delivered |-> <<[call |-> Head(calls), to |-> "sequence"]>>,
                            escaped |-> callbackThrows]
                      ELSE EmitTo(Head(calls), subs)
         IN  IF first.escaped THEN first
             ELSE LET rest == Delivered(Tail(calls), subs, callbackThrows)
                  IN  [delivered |-> first.delivered \o rest.delivered,
                       escaped |-> rest.escaped]

\* What the subscribers and callbacks get from the call just made.
Hear ==
    /\ heard' = Delivered(emitted', subscribers, CallbackThrows(currentSequence'))
    /\ UNCHANGED subscribers

\* on(event, listener), for every event name at once
On(listener) ==
    /\ Len(subscribers) < MaxSubscribers
    /\ subscribers' = Append(subscribers, listener)
    /\ heard' = Silent
    /\ lastCall' = "on"
    /\ emitted' = <<>>
    /\ frameData' = <<>>
    /\ UNCHANGED <<sequences, currentSequence, startTime, isPlaying, speed, progress,
                   now, completeCount, obs, run>>

SeqInit ==
    /\ sequences = [id \in DefaultSequences |-> id]
    /\ currentSequence = NoSequence
    /\ startTime = Num(0)
    /\ isPlaying = FALSE
    /\ speed = Num(1)
    /\ progress = Num(0)
    /\ now = 0
    /\ lastCall = "new"
    /\ emitted = <<>>
    /\ frameData = <<>>
    /\ completeCount = 0
    /\ obs = Idle
    /\ run = NoRun
    /\ subscribers = <<>>
    /\ heard = Silent

-----------------------------------------------------------------------------
(* Initial state and specifications, one per component.                    *)

InterpInit ==
    /\ itTrack = Track("test", <<>>)
    /\ itTime = Num(0)
    /\ itResult = NotCalled

Init ==
    /\ PerfInit
    /\ EffectInit
    /\ SeqInit
    /\ InterpInit

PerfRest == UNCHANGED <<effectVars, seqVars, emitterVars, interpVars>>

PerfNext ==
    \/ \E deltaTime \in DeltaTimes : AddFrameTime(deltaTime) /\ PerfRest
    \/ PerfReset /\ PerfRest

\* The optimizer fed short buffers of mixed frame times.
LevelNext ==
    \/ \E deltaTime \in ShortDeltaTimes : AddFrameTimeShort(deltaTime) /\ PerfRest
    \/ PerfReset /\ PerfRest
    \/ GetSettings /\ PerfRest

EffectRest == UNCHANGED <<perfVars, seqVars, emitterVars, interpVars>>

EffectNext ==
    \/ \E effectId \in EffectIds, intensity \in Intensities \cup {Undefined} :
          EnableEffect(effectId, intensity) /\ EffectRest
    \/ \E effectId \in EffectIds : DisableEffect(effectId) /\ EffectRest
    \/ \E effectId \in EffectIds, intensity \in Intensities \cup {Undefined} :
          ToggleEffect(effectId, intensity) /\ EffectRest
    \/ \E effectId \in EffectIds, intensity \in Intensities :
          SetEffectIntensity(effectId, intensity) /\ EffectRest
    \/ \E effectId \in EffectIds, parameters \in ParameterPatches :
          SetEffectParameters(effectId, parameters) /\ EffectRest
    \/ \E intensity \in GlobalIntensities : SetGlobalIntensity(intensity) /\ EffectRest
    \/ DisableAllEffects /\ EffectRest
    \/ ImportExported /\ EffectRest
    \/ \E config \in ForeignConfigs : ImportConfiguration(config) /\ EffectRest

\* The EffectManager under the calls that change which effects are active,
\* the bulk operations among them, all with the default intensity.
BulkNext ==
    \/ \E effectId \in EffectIds : EnableEffect(effectId, Undefined) /\ EffectRest
    \/ \E effectId \in EffectIds : DisableEffect(effectId) /\ EffectRest
    \/ \E effectId \in EffectIds : ToggleEffect(effectId, Undefined) /\ EffectRest
    \/ EnableAllEffects /\ EffectRest
    \/ DisableAllEffects /\ EffectRest
    \/ ImportExported /\ EffectRest

\* The EffectManager with listeners registered: the calls that notify, with
\* the default intensity.
ListenerNext ==
    \/ \E listener \in Listeners : AddListener(listener) /\ EffectRest
    \/ \E listener \in Listeners : RemoveListener(listener) /\ EffectRest
    \/ \E effectId \in EffectIds : EnableEffect(effectId, Undefined) /\ EffectRest
    \/ \E effectId \in EffectIds : DisableEffect(effectId) /\ EffectRest
    \/ \E intensity \in GlobalIntensities : SetGlobalIntensity(intensity) /\ EffectRest
    \/ DisableAllEffects /\ EffectRest

\* The sequencer is explored beside an EffectManager with the default catalog.
SeqStart == Init /\ effects = DefaultEffects

SeqRest == UNCHANGED <<perfVars, effectVars, emitterVars, interpVars>>

SeqNext ==
    \/ \E object \in AddedSequences : AddSequence(object) /\ SeqRest
    \/ \E id \in RemovedIds : RemoveSequence(id) /\ SeqRest
    \/ \E id \in PlayedIds : Play(id) /\ SeqRest
    \/ Pause /\ SeqRest
    \/ Stop /\ SeqRest
    \/ \E speedArg \in Speeds : SetSpeed(speedArg) /\ SeqRest
    \/ Update /\ SeqRest
    \/ \E p \in SeekTargets : Seek(p) /\ SeqRest
    \/ \E ms \in TickSteps : Tick(ms) /\ SeqRest

\* The sequencer with a caller that registers and plays a sequence of
\* duration 0.
DegenerateNext ==
    \/ \E object \in DegenerateSequences : AddSequence(object) /\ SeqRest
    \/ \E id \in DegenerateIds : Play(id) /\ SeqRest
    \/ Pause /\ SeqRest
    \/ Stop /\ SeqRest
    \/ Update /\ SeqRest
    \/ \E ms \in TickSteps : Tick(ms) /\ SeqRest

\* The sequencer with a caller that registers a sequence, registers another
\* definition under the same id, and removes the id.
ReplaceNext ==
    \/ \E object \in ReplacingSequences : AddSequence(object) /\ SeqRest
    \/ \E id \in ReplacedIds \ {NoId} : RemoveSequence(id) /\ SeqRest
    \/ \E id \in ReplacedIds : Play(id) /\ SeqRest
    \/ Pause /\ SeqRest
    \/ Stop /\ SeqRest
    \/ Update /\ SeqRest
    \/ \E ms \in TickSteps : Tick(ms) /\ SeqRest

\* The sequencer with subscribers and callbacks that may throw.
ThrowRest == UNCHANGED <<perfVars, effectVars, interpVars>>

ThrowNext ==
    \/ \E listener \in Listeners : On(listener) /\ ThrowRest
    \/ \E object \in ThrowingSequences : AddSequence(object) /\ Hear /\ ThrowRest
    \/ \E id \in ThrowingIds : Play(id) /\ Hear /\ ThrowRest
    \/ Pause /\ Hear /\ ThrowRest
    \/ Stop /\ Hear /\ ThrowRest
    \/ SetSpeed(Num(10)) /\ Hear /\ ThrowRest
    \/ Update /\ Hear /\ ThrowRest
    \/ Seek(Rat(1, 2)) /\ Hear /\ ThrowRest
    \/ \E ms \in TickSteps : Tick(ms) /\ Hear /\ ThrowRest

\* interpolateTrack is explored on its own: the start draws a track and a
\* query time, and the one step applies the function.
InterpStart ==
    /\ PerfInit
    /\ EffectInit
    /\ effects = DefaultEffects
    /\ SeqInit
    /\ itTrack \in TestTracks
    /\ itTime \in TestTimes
    /\ itResult = NotCalled

SwitchStart ==
    /\ PerfInit
    /\ EffectInit
    /\ effects = DefaultEffects
    /\ SeqInit
    /\ itTrack \in SwitchTracks
    /\ itTime \in SwitchTimes
    /\ itResult = NotCalled

InterpNext ==
    Interpolate /\ UNCHANGED <<perfVars, effectVars, seqVars, emitterVars>>

PerfSpec == Init /\ [][PerfNext]_vars
LevelSpec == Init /\ [][LevelNext]_vars
EffectSpec == Init /\ [][EffectNext]_vars
SeqSpec == SeqStart /\ [][SeqNext]_vars
InterpSpec == InterpStart /\ [][InterpNext]_vars
SwitchSpec == SwitchStart /\ [][InterpNext]_vars
ThrowSpec == SeqStart /\ [][ThrowNext]_vars
ListenerSpec == Init /\ [][ListenerNext]_vars
BulkSpec == Init /\ [][BulkNext]_vars
DegenerateSpec == SeqStart /\ [][DegenerateNext]_vars
ReplaceSpec == SeqStart /\ [][ReplaceNext]_vars

-----------------------------------------------------------------------------
(* Properties of the EffectManager                                         *)

ActiveIds == DOMAIN activeEffects

DependenciesOf(effectId) ==
    IF effectId \in CatalogIds
    THEN {EffectById(effectId).dependencies[i] :
            i \in 1..Len(EffectById(effectId).dependencies)}
    ELSE {}

ConflictsOf(effectId) ==
    IF effectId \in CatalogIds
    THEN {EffectById(effectId).conflictsWith[i] :
            i \in 1..Len(EffectById(effectId).conflictsWith)}
    ELSE {}

\* x limited to [lo, hi], stated without the manager's own clamp.
Limited(x, lo, hi) == IF RLt(x, lo) THEN lo ELSE IF RGt(x, hi) THEN hi ELSE x

\* C1: enableEffect(id, intensity) on an id that is not in the catalog, or on
\* an effect one of whose dependencies is not active, returns false, notifies
\* nobody and leaves the active effects, their intensities and parameters and
\* the global intensity as they were.
C1_EnableRejected ==
    [][(/\ lastEffectCall'.op = "enableEffect"
        /\ \/ lastEffectCall'.id \notin CatalogIds
           \/ DependenciesOf(lastEffectCall'.id) \ ActiveIds # {})
       => /\ lastEffectCall'.ret = FALSE
          /\ lastEffectCall'.notified = <<>>
          /\ UNCHANGED <<activeOrder, activeEffects, globalIntensity>>]_vars

\* C1 witness: with effects active, an enableEffect on a catalog effect whose
\* dependency is missing has just been refused.
C1_Witness ==
    /\ lastEffectCall.op = "enableEffect"
    /\ lastEffectCall.id \in CatalogIds
    /\ DependenciesOf(lastEffectCall.id) \ ActiveIds # {}
    /\ lastEffectCall.ret = FALSE
    /\ activeOrder # <<>>

\* C2: when e1 lists e2 in its conflicts, e2 is active and e1's dependencies
\* are met, enableEffect(e1) returns true and leaves e1 active and e2 inactive.
C2_ConflictDisabled ==
    [][\A e2 \in ActiveIds :
         (/\ lastEffectCall'.op = "enableEffect"
          /\ e2 \in ConflictsOf(lastEffectCall'.id)
          /\ DependenciesOf(lastEffectCall'.id) \subseteq ActiveIds)
         => /\ lastEffectCall'.ret = TRUE
            /\ lastEffectCall'.id \in DOMAIN activeEffects'
            /\ e2 \notin DOMAIN activeEffects']_vars

\* C2 witness: an enableEffect has just succeeded after disabling an active
\* conflicting effect, on an effect that has a dependency.
C2_Witness ==
    /\ lastEffectCall.op = "enableEffect"
    /\ lastEffectCall.ret = TRUE
    /\ lastEffectCall.disabled # <<>>
    /\ DependenciesOf(lastEffectCall.id) # {}
    /\ lastEffectCall.id \in ActiveIds

\* C14: the EffectStates are exactly those of the active ids, one per id,
\* each with its own effect and enabled; enableEffect(e) on a catalog effect
\* without dependencies leaves e active; disableEffect(e) on an active e
\* returns true and leaves it inactive; disableEffect on an inactive id
\* returns false, notifies nobody and changes nothing.
C14_StatesAreTheActiveEffects ==
    [][LET call == lastEffectCall'
           after == DOMAIN activeEffects'
       IN  /\ after = {activeOrder'[i] : i \in 1..Len(activeOrder')}
           /\ Cardinality(after) = Len(activeOrder')
           /\ \A e \in after : /\ activeEffects'[e].effect = e
                                /\ activeEffects'[e].enabled = TRUE
           /\ (call.op = "enableEffect" /\ call.id \in CatalogIds
                 /\ DependenciesOf(call.id) = {})
              => call.ret = TRUE /\ call.id \in after
           /\ (call.op = "disableEffect" /\ call.id \in ActiveIds)
              => call.ret = TRUE /\ call.id \notin after
           /\ (call.op = "disableEffect" /\ call.id \notin ActiveIds)
              => /\ call.ret = FALSE
                 /\ call.notified = <<>>
                 /\ UNCHANGED <<activeOrder, activeEffects, globalIntensity>>]_vars

\* C14 witness: with two effects active, a disableEffect of one of them, an
\* effect without dependencies, has just returned true.
C14_Witness ==
    /\ lastEffectCall.op = "disableEffect"
    /\ lastEffectCall.ret = TRUE
    /\ DependenciesOf(lastEffectCall.id) = {}
    /\ lastEffectCall.id \notin ActiveIds
    /\ Len(activeOrder) = 1
    /\ Len(lastEffectCall.notified) = 1

\* C15: whatever intensities enableEffect, toggleEffect, setEffectIntensity,
\* setGlobalIntensity and importConfiguration are given, the intensity of
\* every active EffectState and the global intensity lie in [0, 2].
C15_IntensitiesInRange ==
    /\ RGe(globalIntensity, Num(0)) /\ RLe(globalIntensity, Num(2))
    /\ \A e \in ActiveIds :
          /\ RGe(activeEffects[e].intensity, Num(0))
          /\ RLe(activeEffects[e].intensity, Num(2))

\* C15 witness: an import asked for a global intensity of 5 and an effect
\* intensity of -0.5 and left them at 2 and 0.
C15_Witness ==
    /\ lastEffectCall.op = "importForeign"
    /\ requestedGlobal = Num(5)
    /\ globalIntensity = Num(2)
    /\ \E e \in ActiveIds : /\ requested[e] = Rat(-1, 2)
                             /\ activeEffects[e].intensity = Num(0)

\* The manager with the throwing listeners taken away.
QuietRegistry ==
    [Registry EXCEPT !.listeners = SelectSeq(@, LAMBDA l : ~Throws(l))]

\* What the call logged in `call` leaves of a manager r.
Outcome(call, r, globalAsked) ==
    CASE call.op = "enableEffect" -> EnableEffectOn(r, call.id, Undefined).reg
      [] call.op = "disableEffect" -> DisableEffectOn(r, call.id).reg
      [] call.op = "setGlobalIntensity" -> SetGlobalIntensityOn(r, globalAsked)
      [] call.op = "disableAllEffects" -> DisableAllEffectsOn(r)

\* C16: when a mutating call notifies and a listener throws, every
\* registered listener is still called, in order, with the active list of
\* each notification, the last of them the current one; no exception
\* reaches the caller; and the manager ends in the state it would have
\* ended in had no throwing listener been registered.
C16_ThrowingListenerIsContained ==
    [][LET call == lastEffectCall'
           n == Len(listeners)
       IN  call.notified # <<>>
           => /\ ~call.escaped
              /\ Len(call.delivered) = Len(call.notified) * n
              /\ \A k \in 1..Len(call.notified), i \in 1..n :
                    call.delivered[(k - 1) * n + i] =
                        [listener |-> listeners[i], effects |-> call.notified[k]]
              /\ call.notified[Len(call.notified)] = activeOrder'
              /\ LET quiet == Outcome(call, QuietRegistry, requestedGlobal')
                 IN  /\ activeOrder' = quiet.order
                     /\ activeEffects' = quiet.states
                     /\ globalIntensity' = quiet.global
                     /\ listeners' = listeners]_vars

\* C16 witness: an enableEffect has just notified a throwing listener and,
\* after it, a quiet one, and returned true.
C16_Witness ==
    /\ listeners = <<"throwing", "quiet">>
    /\ lastEffectCall.op = "enableEffect"
    /\ lastEffectCall.ret = TRUE
    /\ lastEffectCall.delivered[Len(lastEffectCall.delivered)]
         = [listener |-> "quiet", effects |-> activeOrder]

EnableWithoutConflictNotifiesOnce ==
    [][LET call == lastEffectCall'
       IN  (call.op = "enableEffect" /\ call.ret /\ call.disabled = <<>>)
           => call.notified = <<activeOrder'>>]_vars

\* C19: a successful enableEffect(e) removes from the active set the active
\* members of e's conflict list, adds e, and leaves every other active
\* effect active, in place, with its intensity and parameters, also those
\* that conflict with or depend on the effects it disabled.
C19_CascadeIsOneLevel ==
    [][LET call == lastEffectCall'
           e == call.id
       IN  (call.op = "enableEffect" /\ call.ret)
           => /\ DOMAIN activeEffects' = (ActiveIds \ ConflictsOf(e)) \cup {e}
              /\ \A other \in DOMAIN activeEffects' \ {e} :
                    activeEffects'[other] = activeEffects[other]
              /\ SelectSeq(activeOrder', LAMBDA x : x # e)
                   = SelectSeq(activeOrder, LAMBDA x : x \notin ConflictsOf(e) \cup {e})
              /\ UNCHANGED globalIntensity]_vars

\* C19 witness: enabling an effect has just disabled a conflicting effect
\* while an effect that depends on the disabled one, and lists the enabled
\* one among its own conflicts, stayed active.
C19_Witness ==
    /\ lastEffectCall.op = "enableEffect"
    /\ lastEffectCall.ret = TRUE
    /\ \E gone \in ConflictsOf(lastEffectCall.id), kept \in ActiveIds :
          /\ gone \notin ActiveIds
          /\ lastEffectCall.disabled = <<gone>>
          /\ gone \in DependenciesOf(kept)
          /\ lastEffectCall.id \in ConflictsOf(kept)

\* Every active effect has all of its dependencies active.
Closed == \A e \in ActiveIds : DependenciesOf(e) \subseteq ActiveIds

C28_AudioReactiveNeverActive ==
    effects = DefaultEffects
    => /\ "audio_reactive" \notin ActiveIds
       /\ DependenciesOf("audio_reactive") = {"audio_context"}
       /\ "audio_context" \notin CatalogIds \cup ActiveIds
       /\ lastEffectCall.op = "enableAllEffects"
          => /\ ActiveIds = CatalogIds \ {"audio_reactive"}
             /\ Cardinality(ActiveIds) = 19
             /\ Cardinality(CatalogIds) = 20

\* C28 witness: enableAllEffects() has returned on the default catalog with
\* 19 effects active, 'fire' among them.
C28_Witness ==
    /\ effects = DefaultEffects
    /\ lastEffectCall.op = "enableAllEffects"
    /\ Cardinality(ActiveIds) = 19
    /\ "fire" \in ActiveIds
    /\ "audio_reactive" \notin ActiveIds

\* C30: enableEffect(id, x) on an effect that is already active with its
\* dependencies active returns true and replaces the one state of id: the
\* intensity becomes x limited to [0, 2], the parameters are the catalog
\* defaults again, and every other active effect outside id's conflict list
\* is left as it was.
C30_ReenableReplaces ==
    [][LET call == lastEffectCall'
           id == call.id
           x == requested'[id]
       IN  (/\ call.op = "enableEffect"
            /\ id \in DOMAIN activeEffects
            /\ DependenciesOf(id) \subseteq DOMAIN activeEffects)
           => /\ call.ret
              /\ id \in DOMAIN activeEffects'
              /\ Cardinality({i \in 1..Len(activeOrder') : activeOrder'[i] = id}) = 1
              /\ activeEffects'[id].intensity =
                    (IF RLt(x, Num(0)) THEN Num(0)
                     ELSE IF RGt(x, Num(2)) THEN Num(2) ELSE x)
              /\ activeEffects'[id].parameters = EffectById(id).parameters
              /\ \A e \in DOMAIN activeEffects \ ({id} \cup ConflictsOf(id)) :
                    /\ e \in DOMAIN activeEffects'
                    /\ activeEffects'[e] = activeEffects[e]]_vars

\* C30 witness: enableEffect('fire', 3) has returned true on a manager in
\* which 'fire' was active before 'water' was enabled: 'fire' keeps its place
\* in the Map, at intensity 2 and with the catalog parameters.
C30_Witness ==
    /\ lastEffectCall.op = "enableEffect"
    /\ lastEffectCall.id = "fire"
    /\ lastEffectCall.ret
    /\ activeOrder = <<"fire", "water">>
    /\ requested["fire"] = Num(3)
    /\ activeEffects["fire"].intensity = Num(2)
    /\ activeEffects["fire"].parameters = EffectById("fire").parameters
    /\ activeEffects["water"].intensity = Rat(3, 2)

\* Every active effect's dependencies are active and precede it in the Map.
DependenciesPrecede ==
    \A i \in 1..Len(activeOrder) :
        \A dep \in DependenciesOf(activeOrder[i]) :
            \E j \in 1..(i - 1) : activeOrder[j] = dep

C7_EffectiveIntensity ==
    \A id \in EffectIds :
        GetEffectiveIntensity(id) =
            IF id \in ActiveIds
            THEN RMul(Limited(requested[id], Num(0), Num(2)),
                      Limited(requestedGlobal, Num(0), Num(2)))
            ELSE Num(0)

\* C7 witness: 'fire' enabled at 1.5 and the global intensity set to 0.5
\* give an effective intensity of 0.75.
C7_Witness ==
    /\ "fire" \in ActiveIds
    /\ requested["fire"] = Rat(3, 2)
    /\ requestedGlobal = Rat(1, 2)
    /\ GetEffectiveIntensity("fire") = Rat(3, 4)

-----------------------------------------------------------------------------
(* Properties of the PerformanceOptimizer                                  *)

\* The last n elements of s, in order (all of s when it is shorter).
LastN(s, n) == IF Len(s) <= n THEN s ELSE SubSeq(s, Len(s) - n + 1, Len(s))

\* C10: after any addFrameTime and reset calls the buffer holds at most 60
\* samples, and they are the most recent min(n, 60) samples pushed since the
\* last reset, in arrival order: a push onto a full buffer evicts the oldest.
C10_SlidingWindow ==
    /\ Len(frameRates) <= 60
    /\ frameRates = LastN(recorded, 60)

\* C10 witness: more than 60 frames were recorded, the evicted samples differ
\* from the ones that replaced them, and the buffer is full.
C10_Witness ==
    /\ Len(recorded) > 60
    /\ Len(frameRates) = 60
    /\ recorded[1] # recorded[Len(recorded)]
    /\ recorded[2] # recorded[3]

\* The sum of the samples of a buffer: each distinct value times the number
\* of its occurrences.
RECURSIVE TotalOf(_, _)
TotalOf(buf, values) ==
    IF values = {} THEN Num(0)
    ELSE LET v == CHOOSE x \in values : TRUE
             times == Cardinality({i \in DOMAIN buf : buf[i] = v})
         IN  RAdd(RMul(v, Num(times)), TotalOf(buf, values \ {v}))

Total(buf) == TotalOf(buf, {buf[i] : i \in DOMAIN buf})

\* The arithmetic mean of a buffer, 60 when it is empty.
Mean(buf) == IF buf = <<>> THEN Num(60) ELSE RDiv(Total(buf), Num(Len(buf)))

\* C11: in every state getPerformanceLevel() is (avgFPS - 30) / 30 limited to
\* [0, 1], avgFPS being the mean of the buffered samples or 60 on an empty
\* buffer; so it lies in [0, 1], is 1 on an empty buffer and is 0 when the
\* buffer holds 60 frames of 15 FPS.
C11_PerformanceLevel ==
    LET level == GetPerformanceLevel(frameRates)
    IN  /\ level = Limited(RDiv(RSub(Mean(frameRates), Num(30)), Num(30)), Num(0), Num(1))
        /\ RGe(level, Num(0)) /\ RLe(level, Num(1))
        /\ frameRates = <<>> => level = Num(1)
        /\ frameRates = [i \in 1..60 |-> Num(15)] => level = Num(0)

\* C11 witness: 60 frames of 15 FPS are buffered and the level is 0.
C11_Witness ==
    /\ frameRates = [i \in 1..60 |-> Num(15)]
    /\ GetAverageFPS(frameRates) = Num(15)
    /\ GetPerformanceLevel(frameRates) = Num(0)

\* Buffers to compare a state with: one sample each, with averages on both
\* sides of every tier of adjustParticleCount.
Benchmarks ==
    {<<Num(fps)>> : fps \in {15, 20, 30, 36, 39, 42, 45, 48, 51, 54, 57, 60, 90}}

\* The particle counts asked for.
RequestedCounts == <<Num(0), Rat(1, 2), Num(1), Num(3), Num(10000)>>

\* What the optimizer answers on a buffer: its average, its level, and its
\* adjusted count for each requested count.
Measured(buf) ==
    [avg |-> GetAverageFPS(buf),
     level |-> GetPerformanceLevel(buf),
     counts |-> <<AdjustParticleCount(buf, RequestedCounts[1]),
                  AdjustParticleCount(buf, RequestedCounts[2]),
                  AdjustParticleCount(buf, RequestedCounts[3]),
                  AdjustParticleCount(buf, RequestedCounts[4]),
                  AdjustParticleCount(buf, RequestedCounts[5])>>]

\* b performs at least as well as a: its level is no lower, and for every
\* requested count its adjusted count is no lower.
NoWorse(a, b) ==
    /\ RLe(a.level, b.level)
    /\ \A i \in DOMAIN RequestedCounts : RLe(a.counts[i], b.counts[i])

\* C12: for a requested count n >= 0, a buffer with a higher average FPS has
\* no lower performance level and no lower adjustParticleCount(n), and
\* adjustParticleCount(n) never exceeds n.
C12_Monotone ==
    LET mine == Measured(frameRates)
        others == {Measured(buf) : buf \in Benchmarks \cup
                                           {SubSeq(frameRates, 1, k) : k \in 0..Len(frameRates)} \cup
                                           {LastN(frameRates, k) : k \in 0..Len(frameRates)}}
    IN  /\ \A i \in DOMAIN RequestedCounts : RLe(mine.counts[i], RequestedCounts[i])
        /\ \A other \in others :
              /\ RLe(other.avg, mine.avg) => NoWorse(other, mine)
              /\ RLe(mine.avg, other.avg) => NoWorse(mine, other)

\* C12 witness: three frames of 15 FPS and two of 90 average 45 FPS: the
\* level is 1/2 and 10000 requested particles are cut to 5000, between the
\* 2500 of 20 FPS and the 10000 of 60.
C12_Witness ==
    /\ frameRates = <<Num(15), Num(15), Num(15), Num(90), Num(90)>>
    /\ GetAverageFPS(frameRates) = Num(45)
    /\ GetPerformanceLevel(frameRates) = Rat(1, 2)
    /\ AdjustParticleCount(frameRates, Num(10000)) = Num(5000)
    /\ AdjustParticleCount(<<Num(20)>>, Num(10000)) = Num(2500)
    /\ AdjustParticleCount(<<Num(60)>>, Num(10000)) = Num(10000)

\* The settings the specification derives from a level.
SettingsAt(level) ==
    [asked |-> TRUE,
     lod |-> IF RLt(level, Rat(3, 10)) THEN 3
             ELSE IF RLt(level, Rat(6, 10)) THEN 2
             ELSE IF RLt(level, Rat(8, 10)) THEN 1 ELSE 0,
     shadow |-> IF RLt(level, Rat(3, 10)) THEN "none"
                ELSE IF RLt(level, Rat(1, 2)) THEN "low"
                ELSE IF RLt(level, Rat(8, 10)) THEN "medium" ELSE "high",
     scale |-> IF RLt(level, Rat(3, 10)) THEN Rat(1, 2)
               ELSE IF RLt(level, Rat(6, 10)) THEN Rat(3, 4) ELSE Num(1),
     skip |-> RLt(level, Rat(4, 10))]

\* C25: the four derived-setting getters leave the sample buffer unchanged
\* and return the tiers of the current performance level (LOD 3/2/1/0 below
\* 0.3/0.6/0.8, shadows none/low/medium/high below 0.3/0.5/0.8, render scale
\* 0.5/0.75/1 below 0.3/0.6, skip below 0.4); a buffer with the same level
\* gets the same settings.
C25_SettingsFollowLevel ==
    [][settings'.asked
       => /\ UNCHANGED frameRates
          /\ settings' = SettingsAt(GetPerformanceLevel(frameRates))
          /\ \A other \in Benchmarks \cup
                           {SubSeq(frameRates, 1, k) : k \in 0..Len(frameRates)} :
                GetPerformanceLevel(other) = GetPerformanceLevel(frameRates)
                => Settings(other) = settings']_vars

\* C25 witness: the getters were read at level 1/2 on a buffer of five
\* samples: LOD 2, medium shadows, render scale 0.75, nothing skipped; the
\* one-sample buffer of 45 FPS has the same level.
C25_Witness ==
    /\ settings = [asked |-> TRUE, lod |-> 2, shadow |-> "medium",
                   scale |-> Rat(3, 4), skip |-> FALSE]
    /\ frameRates = <<Num(15), Num(15), Num(15), Num(90), Num(90)>>
    /\ GetPerformanceLevel(frameRates) = GetPerformanceLevel(<<Num(45)>>)

\* The share of the requested count that the tiers grant at a level.
TierShare(level) ==
    IF RLt(level, Rat(3, 10)) THEN Rat(1, 4)
    ELSE IF RLt(level, Rat(6, 10)) THEN Rat(1, 2)
    ELSE IF RLt(level, Rat(8, 10)) THEN Rat(3, 4)
    ELSE Num(1)

IsInteger(x) == IsFinite(x) /\ x[2] = 1

\* C24: adjustParticleCount(requested) is floor(requested x m), m being
\* 0.25, 0.5, 0.75 or 1 by the tier of the level, an integer in all four
\* tiers.
C24_AllTiersFloored ==
    \A i \in DOMAIN RequestedCounts :
       LET adjusted == AdjustParticleCount(frameRates, RequestedCounts[i])
       IN  /\ adjusted = MathFloor(RMul(RequestedCounts[i],
                                        TierShare(GetPerformanceLevel(frameRates))))
           /\ IsInteger(adjusted)

\* C24 witness: at a level of at least 0.8 on a buffer that is not empty, a
\* request of 0.5 comes back as 0.5.
C24_Witness ==
    /\ frameRates # <<>>
    /\ RGe(GetPerformanceLevel(frameRates), Rat(8, 10))
    /\ AdjustParticleCount(frameRates, Rat(1, 2)) = Rat(1, 2)

\* Below a level of 0.8, and for integer requests at every level, the result
\* is floor(requested x m).
FlooredBelowFullTier ==
    \A i \in DOMAIN RequestedCounts :
       (RLt(GetPerformanceLevel(frameRates), Rat(8, 10)) \/ IsInteger(RequestedCounts[i]))
       => /\ AdjustParticleCount(frameRates, RequestedCounts[i])
               = MathFloor(RMul(RequestedCounts[i],
                                TierShare(GetPerformanceLevel(frameRates))))
          /\ IsInteger(AdjustParticleCount(frameRates, RequestedCounts[i]))

-----------------------------------------------------------------------------
(* Properties of the AnimationSequencer                                    *)

\* The whole and the fractional part of a non-negative rational.
Floor(x) == x[1] \div x[2]
Frac(x) == Rat(x[1] % x[2], x[2])

\* What update() takes for the position: elapsed seconds times speed over the
\* duration of the current sequence.
RawProgress ==
    RDiv(RMul(RDiv(RSub(Num(now), startTime), Num(1000)), speed), Current.duration)

Live == isPlaying /\ currentSequence # NoSequence

\* C3: after pause() at progress p, any wait, and a resume by play() without
\* an id, the next update() with no further wait reports progress p.
C3_ResumeKeepsProgress ==
    obs.phase = "resumeChecked" => progress = obs.p

\* C3 witness: a sequence paused past its start was resumed and updated.
C3_Witness ==
    /\ obs.phase = "resumeChecked"
    /\ RGt(obs.p, Num(0))
    /\ RLt(obs.p, Num(1))

\* C4: a looping sequence of duration D played at speed 1 and driven only by
\* update() reports, at the update made E seconds after play(), the progress
\* (E mod D)/D, and has emitted floor(E/D) 'loop' events by then.
C4_LoopKeepsOvershoot ==
    (run.clean /\ lastCall = "update" /\ speed = Num(1) /\ Current.loop)
    => LET turns == RDiv(Rat(now - run.since, 1000), Current.duration)
       IN  /\ progress = Frac(turns)
           /\ run.loops = Floor(turns)

\* C4 witness: a looping sequence played at speed 1 was updated after more
\* than one duration had passed.
C4_Witness ==
    /\ run.clean
    /\ lastCall = "update"
    /\ speed = Num(1)
    /\ Current.loop
    /\ RGt(Rat(now - run.since, 1000), Current.duration)

\* C5: for a one-shot sequence of positive duration, the update() that finds
\* elapsed x speed >= duration sets progress to exactly 1 and isPlaying to
\* false, fires onComplete and one 'complete' and no 'update'; an update()
\* while not playing changes nothing and fires nothing; 'complete' is fired
\* at most once per play().
C5_CompletesOnce ==
    [][lastCall' = "update" =>
         /\ (Live /\ ~Current.loop /\ RGt(Current.duration, Num(0))
               /\ RGe(RawProgress, Num(1)))
            => /\ progress' = Num(1)
               /\ ~isPlaying'
               /\ Count(emitted', "complete") = 1
               /\ Count(emitted', "update") = 0
               /\ Current.callbacks => Count(emitted', "onComplete") = 1
               /\ frameData' = <<>>
         /\ ~isPlaying
            => /\ emitted' = <<>>
               /\ UNCHANGED <<sequences, currentSequence, startTime, isPlaying,
                              speed, progress>>
         /\ completeCount' <= 1]_vars

\* C5 witness: a one-shot sequence completed, time passed, and a later
\* update() found it stopped at progress 1 and fired nothing.
C5_Witness ==
    /\ lastCall = "update"
    /\ completeCount = 1
    /\ ~Current.loop
    /\ ~isPlaying
    /\ progress = Num(1)
    /\ emitted = <<>>
    /\ RGt(RawProgress, Num(1))

\* C13: in every state reached by play, pause, stop, seek, setSpeed and
\* update over sequences of positive duration, with a clock that never runs
\* back, progress lies in [0, 1] and speed in [0.1, 5].
C13_ProgressAndSpeedInRange ==
    /\ RGe(progress, Num(0)) /\ RLe(progress, Num(1))
    /\ RGe(speed, Rat(1, 10)) /\ RLe(speed, Num(5))

\* C13 witness: setSpeed(0) left the speed at 0.1, and an update() later in
\* the playback reported a progress strictly inside (0, 1).
C13_Witness ==
    /\ speed = Rat(1, 10)
    /\ lastCall = "update"
    /\ now > 0
    /\ RGt(progress, Num(0)) /\ RLt(progress, Num(1))
    /\ progress = RawProgress

\* C17: play(id) with an id that is not in the catalog changes neither the
\* current sequence nor isPlaying, startTime or progress, and fires nothing,
\* whether the sequencer is stopped, playing or paused. The empty string is
\* such an id (NoId is what play('') and play() both pass).
C17_UnknownIdIsNoOp ==
    [][\A id \in PlayedIds :
         (id \notin DOMAIN sequences /\ Play(id))
         => /\ UNCHANGED <<currentSequence, isPlaying, startTime, progress>>
            /\ emitted' = <<>>]_vars

\* C17 witness: while playing, a play(id) fired nothing: its id was unknown.
C17_Witness ==
    /\ lastCall = "play"
    /\ emitted = <<>>
    /\ isPlaying
    /\ RGt(progress, Num(0))

\* play(id) with an unknown id that is not the empty string is a no-op.
UnknownNamedIdIsNoOp ==
    [][\A id \in PlayedIds \ {NoId} :
         (id \notin DOMAIN sequences /\ Play(id))
         => /\ UNCHANGED <<currentSequence, isPlaying, startTime, progress>>
            /\ emitted' = <<>>]_vars

C20_ZeroDurationCompletes ==
    [][(/\ lastCall = "play"
        /\ run.clean
        /\ Live
        /\ Current.duration = Num(0)
        /\ lastCall' = "update")
       => /\ progress' = Num(1)
          /\ isPlaying' = FALSE
          /\ Count(emitted', "complete") = 1]_vars

\* C20 witness: update() has just run on a playing sequence of duration 0
\* in the millisecond of its play(); progress is NaN, the sequence still
\* plays, and 'update' was fired instead of 'complete'.
C20_Witness ==
    /\ lastCall = "update"
    /\ Live
    /\ Current.duration = Num(0)
    /\ startTime = Num(now)
    /\ IsNaN(progress)
    /\ emitted = <<"onUpdate", "update">>
    /\ completeCount = 0

\* Once time has passed since play(), update() completes a one-shot
\* sequence of duration 0: elapsed / 0 is Infinity, and Infinity >= 1.
ZeroDurationCompletesAfterTime ==
    [][(/\ Live
        /\ Current.duration = Num(0)
        /\ RGt(Num(now), startTime)
        /\ lastCall' = "update")
       => /\ progress' = Num(1)
          /\ isPlaying' = FALSE
          /\ emitted' = <<"onComplete", "complete">>]_vars

\* The events among the calls of the last method, made and delivered.
EventsDelivered == SelectSeq(heard.delivered, LAMBDA d : d.to # "sequence")

EventsEmitted == SelectSeq(emitted, LAMBDA e : e \notin Callbacks)

\* Nothing escaped the last call, and every subscriber got each of its
\* events, event by event in registration order.
EveryoneHeard ==
    /\ ~heard.escaped
    /\ Len(EventsDelivered) = Len(EventsEmitted) * Len(subscribers)
    /\ \A i \in 1..Len(EventsDelivered) :
          /\ EventsDelivered[i].call = EventsEmitted[((i - 1) \div Len(subscribers)) + 1]
          /\ EventsDelivered[i].to = subscribers[((i - 1) % Len(subscribers)) + 1]

\* C23: no exception of a subscriber or of a lifecycle callback escapes
\* play(), pause(), stop(), setSpeed(), update() or seek(), and every
\* subscriber receives every event of the call.
C23_SubscriberFailureIsContained ==
    lastCall \in {"play", "pause", "stop", "setSpeed", "update", "seek"} => EveryoneHeard

\* C23 witness: with a throwing subscriber registered before a quiet one,
\* update() wrapped a looping sequence; 'loop' reached the first subscriber
\* only, the exception left update(), and 'update' was never emitted.
C23_Witness ==
    /\ subscribers = <<"throwing", "quiet">>
    /\ lastCall = "update"
    /\ emitted = <<"loop", "update">>
    /\ heard = [delivered |-> <<[call |-> "loop", to |-> "throwing"]>>,
                escaped |-> TRUE]

\* Without a throwing subscriber or callback every event reaches everyone.
QuietSubscribersHearAll ==
    ((\A i \in DOMAIN subscribers : ~Throws(subscribers[i]))
        /\ ~CallbackThrows(currentSequence))
    => EveryoneHeard

\* C21: as soon as stop() returns, and as soon as play(id) returns after
\* selecting the sequence registered under id, progress is 0.
C21_ProgressResets ==
    [][/\ Stop => progress' = Num(0)
       /\ \A id \in PlayedIds \ {NoId} :
             (id \in DOMAIN sequences /\ Play(id)) => progress' = Num(0)]_vars

\* C21 witness: play('once') has just returned while progress still holds
\* the 4/7 that an update() of 'plasma' left there.
C21_Witness ==
    /\ lastCall = "play"
    /\ emitted = <<"onStart", "play">>
    /\ currentSequence = "once"
    /\ isPlaying
    /\ progress = Rat(4, 7)

\* stop() alone does reset progress.
StopResetsProgress ==
    [][Stop => (progress' = Num(0) /\ isPlaying' = FALSE)]_vars

\* The current sequence is the definition the catalog holds under its id.
CurrentIsRegistered ==
    /\ Current.id \in DOMAIN sequences
    /\ sequences[Current.id] = currentSequence

\* C29: in every reachable state the current sequence is null or the
\* definition registered in the catalog under its id, and the sequencer
\* plays only with a current sequence, so that update() never drives a
\* definition that removeSequence removed or addSequence replaced.
C29_CurrentStaysRegistered ==
    /\ currentSequence = NoSequence \/ CurrentIsRegistered
    /\ isPlaying => currentSequence # NoSequence

\* C29 witness: update() has just fired 'update' for the definition that
\* play('once') selected, while the catalog holds another definition under
\* 'once'.
C29_Witness ==
    /\ lastCall = "update"
    /\ Count(emitted, "update") = 1
    /\ isPlaying
    /\ currentSequence = "once"
    /\ "once" \in DOMAIN sequences
    /\ sequences["once"] = "encore"

\* update() has fired 'update' for a definition whose id the catalog no
\* longer knows.
RemovedStillDriven ==
    /\ lastCall = "update"
    /\ Count(emitted, "update") = 1
    /\ currentSequence = "once"
    /\ "once" \notin DOMAIN sequences

\* What does hold: the sequencer plays only with a current sequence.
PlayingHasCurrent == isPlaying => currentSequence # NoSequence

\* C27: while playing, update(); setSpeed(v); update() with no time passing
\* between the calls reports the same progress twice, and the second
\* update() fires neither 'loop' nor 'complete'.
C27_SpeedKeepsPosition ==
    obs.phase = "speedChecked"
    => /\ progress = obs.p
       /\ Count(emitted, "loop") = 0
       /\ Count(emitted, "complete") = 0

\* C27 witness: 'plasma' stood at 4/7 at speed 1; after setSpeed(10) the
\* update() of the same millisecond wraps it around to 0 and fires 'loop'.
C27_Witness ==
    /\ obs.phase = "speedChecked"
    /\ obs.p = Rat(4, 7)
    /\ obs.was = Num(1)
    /\ speed = Num(5)
    /\ currentSequence = "plasma"
    /\ progress = Num(0)
    /\ Count(emitted, "loop") = 1

\* What does hold: setSpeed itself writes only the speed, and the update()
\* that follows shows the old position scaled by the ratio of the speeds.
SpeedScalesPosition ==
    [][/\ lastCall' = "setSpeed"
          => /\ progress' = progress
             /\ startTime' = startTime
             /\ isPlaying' = isPlaying
             /\ emitted' = <<"speedChanged">>
       /\ obs'.phase = "speedChecked"
          => LET scaled == RDiv(RMul(obs'.p, speed'), obs'.was)
             IN  IF RLt(scaled, Num(1))
                 THEN progress' = scaled /\ isPlaying'
                 ELSE IF SequenceObjects[currentSequence'].loop
                 THEN progress' = Num(0) /\ Count(emitted', "loop") = 1
                 ELSE /\ progress' = Num(1)
                      /\ ~isPlaying'
                      /\ Count(emitted', "complete") = 1]_vars

-----------------------------------------------------------------------------
(* Properties of interpolateTrack                                          *)

First == itTrack.keyframes[1]
Last == itTrack.keyframes[Len(itTrack.keyframes)]

\* The keyframe times never decrease along the track.
TimesAscend ==
    \A i \in 1..(Len(itTrack.keyframes) - 1) :
        RLe(itTrack.keyframes[i].time, itTrack.keyframes[i + 1].time)

\* The first keyframe that has the given time.
EarliestAt(time) ==
    itTrack.keyframes[CHOOSE i \in 1..Len(itTrack.keyframes) :
        /\ itTrack.keyframes[i].time = time
        /\ \A j \in 1..(i - 1) : itTrack.keyframes[j].time # time]

EasedU ==
    LET u == RDiv(RSub(itTime, First.time), RSub(Last.time, First.time))
    IN  IF Last.easing = "quad" THEN RMul(u, u) ELSE u

\* The value of "v" in the second keyframe, undefined when it has none.
NextV ==
    IF "v" \in DOMAIN Last.properties THEN Last.properties["v"] ELSE UndefinedValue

BothNumbers == First.properties["v"].type = "number" /\ NextV.type = "number"

BothArrays == First.properties["v"].type = "array" /\ NextV.type = "array"

EqualLength == Len(First.properties["v"].nums) = Len(NextV.nums)

HardSwitched ==
    itResult.value["v"] = IF RLt(EasedU, Rat(1, 2)) THEN First.properties["v"] ELSE NextV

\* C22: strictly between two keyframes, a property that is not a number in
\* both and not an array of equal length in both takes the first keyframe's
\* value while eased_u < 0.5 and the second keyframe's value otherwise.
C22_HardSwitch ==
    (itResult.done /\ ~BothNumbers /\ ~(BothArrays /\ EqualLength)) => HardSwitched

\* C22 witness: arrays of three and of two numbers were resolved at eased
\* position 0.8; the result is neither keyframe's array but an element-wise
\* blend with NaN where the second array has no element.
C22_Witness ==
    /\ itResult.done
    /\ First.properties["v"] = Array(<<Num(4), Num(8), Num(12)>>)
    /\ NextV = Array(<<Num(0), Num(10)>>)
    /\ EasedU = Rat(4, 5)
    /\ itResult.value["v"] = Array(<<Rat(4, 5), Rat(48, 5), NaN>>)

\* Everything but a pair of arrays of different length is hard-switched.
HardSwitchUnlessArrays ==
    (itResult.done /\ ~BothNumbers /\ ~BothArrays) => HardSwitched

=============================================================================
